---------------------------- MODULE Spec2Model ----------------------------
(***************************************************************************)
(* Stream supervisor of src-tauri/src/streaming.rs: the commands           *)
(* start_stream, stop_stream and get_stream_status, run as parallel tasks  *)
(* over the StreamingState singleton, the sidecar processes they spawn and *)
(* the drain task that consumes each sidecar's event channel.              *)
(*                                                                         *)
(* Every Mutex of StreamingState is modelled: a block                      *)
(*     { let g = slot.lock()?; ... }                                       *)
(* is one atomic step enabled when the mutex is free; get_stream_status,   *)
(* which keeps its guards until it returns, takes one step per lock().     *)
(* No code panics while holding a guard, so no mutex is ever poisoned and  *)
(* the map_err(..)? paths of lock() are unreachable.                       *)
(*                                                                         *)
(* Option<T> is modelled as a sequence: <<>> is None, <<x>> is Some(x).    *)
(***************************************************************************)
EXTENDS Integers, Sequences, FiniteSets, TLC

\* Number of command invocations that may be in flight at once.
NThreads == 2
\* Number of sidecar processes that can be spawned in one run.
MaxSpawn == 2
\* Number of command invocations in one run.
MaxCalls == 4
\* Number of command invocations in one run when they are invoked in sequence.
MaxSeqCalls == 3
\* commands invoked in a run with parallel commands and sidecar output
MaxParCalls == 3
\* Capacity of a sidecar's event channel.
ChanCap == 1
\* Largest elapsed time (in seconds) get_stream_status may observe.
MaxElapsed == 1
\* Largest number of top-level windows on the hosts with windows of every kind.
MaxWindows == 2
\* Number of windows on the crowded host, all of them qualifying.
MaxCrowd == 22

Threads == 1..NThreads
Children == 1..MaxSpawn

None == <<>>
Some(x) == <<x>>
is_some(o) == o # <<>>
unwrap(o) == o[1]

\* StreamBackend (streaming.rs:20-24)
StreamBackend == {"FFmpeg", "GStreamer"}

\* The StreamConfig values the commands are called with: the fields the
\* supervisor reads (source_id, whip_url, backend).
Configs ==
  { [source_id |-> "desktop", whip_url |-> "https://a", backend |-> "GStreamer"],
    [source_id |-> "title=My Game", whip_url |-> "https://b", backend |-> "FFmpeg"] }

\* command_name chosen by start_stream for a backend (streaming.rs:330-340)
command_name(b) == IF b = "GStreamer" THEN "gst-launch-1.0" ELSE "ffmpeg"

\* backend string rendered by get_stream_status (streaming.rs:474-477)
backend_name(b) == IF b = "FFmpeg" THEN "ffmpeg" ELSE "gstreamer"

----------------------------------------------------------------------------
\* Lines of sidecar output, as sequences of characters.

\* str::contains: pat occurs in line as a contiguous substring
contains(line, pat) ==
  \E i \in 1..(Len(line) - Len(pat) + 1) : SubSeq(line, i, i + Len(pat) - 1) = pat

\* the three literal substrings of streaming.rs:388
PatError == <<"E", "r", "r", "o", "r">>
Paterror == <<"e", "r", "r", "o", "r">>
PatERROR == <<"E", "R", "R", "O", "R">>

\* the test of streaming.rs:388
is_error_line(line) ==
  contains(line, PatError) \/ contains(line, Paterror) \/ contains(line, PatERROR)

\* lines a sidecar writes to standard error
StderrLines ==
  { <<"E", "R", "R", "O", "R", ":", "x">>,
    <<"f", "p", "s", "=", "1">> }

\* lines a sidecar writes to standard output
StdoutLines == { <<"e", "r", "r", "o", "r">> }

\* CommandEvent values queued on the channel (tauri::api::process); the
\* Terminated event, always the last one, is not queued: see DrainTerminated
Events ==
  [kind : {"Stderr"}, line : StderrLines] \cup
  [kind : {"Stdout"}, line : StdoutLines] \cup
  { [kind |-> "Error", line |-> <<>>] }

----------------------------------------------------------------------------
VARIABLES
  \* StreamingState (streaming.rs:93-99) and SharedState (streaming.rs:87-90)
  stream_child,     \* Option<CommandChild>: None or Some(child id)
  current_config,   \* Option<StreamConfig>
  start_time,       \* Option<Instant>
  last_error,       \* Option<String>
  is_running,       \* bool
  current_backend,  \* Option<StreamBackend>
  \* holder of each Mutex: 0 when free, else the thread holding its guard
  holder,
  \* the command tasks
  pc,               \* position of each command invocation
  config,           \* start_stream's config argument
  child,            \* start_stream's spawned child / stop_stream's child_opt
  ret,              \* the result returned by the step just taken, if any
  calls,            \* number of commands invoked so far
  \* the sidecar processes
  nSpawned,         \* number of processes spawned so far
  proc,             \* "unborn" | "alive" | "exited" (by itself) | "killed"
  rx,               \* the event channel of each process
  drain,            \* drain task: "none" | "running" | "done"
  \* history variables, read only by the properties
  alone,            \* the command invoked last was invoked while no other was
                    \* in progress: it has overlapped no other command
  okChild,          \* child of the last start_stream that returned Ok; 0 once
                    \* a stop_stream has been called since
  okAlone,          \* that start_stream overlapped no other call
  okConfig,         \* the config that start_stream was called with
  errEmitted,       \* the process has written a matching line to stderr
  \* the commands that do not touch StreamingState (list_capture_sources,
  \* check_ffmpeg, check_gstreamer) and the argument builders: one call frame
  call_pc,          \* position inside the function, "idle" outside
  call_in,          \* its argument, or what it reads from the host
  call_local,       \* its local variables
  call_out          \* the value returned by the last call

slots == <<stream_child, current_config, start_time, last_error, is_running,
           current_backend>>
tasks == <<pc, config, child, calls, alone>>
procs == <<nSpawned, proc, rx, drain>>
hist == <<okChild, okAlone, okConfig, errEmitted>>
frame == <<call_pc, call_in, call_local, call_out>>
vars == <<stream_child, current_config, start_time, last_error, is_running,
          current_backend, holder, pc, config, child, ret, calls, alone,
          nSpawned, proc, rx, drain,
          okChild, okAlone, okConfig, errEmitted,
          call_pc, call_in, call_local, call_out>>

LockNames == {"stream_child", "current_config", "start_time", "last_error",
              "is_running", "current_backend"}

\* Mutex::lock succeeds at once when nobody holds the guard
free(l) == holder[l] = 0

\* the StreamStatus of an idle supervisor, used as the empty value of ret
NoStatus == [active |-> FALSE, source_id |-> None, whip_url |-> None,
             duration_seconds |-> 0, error |-> None, backend |-> None]

\* Result values of the commands
NoRet == [op |-> "none", ok |-> FALSE, err |-> "", status |-> NoStatus]
Ok(o) == [op |-> o, ok |-> TRUE, err |-> "", status |-> NoStatus]
Err(o, e) == [op |-> o, ok |-> FALSE, err |-> e, status |-> NoStatus]
OkStatus(s) == [op |-> "status", ok |-> TRUE, err |-> "", status |-> s]

StartPcs == {"start_check", "start_spawn", "start_set_child", "start_set_config",
             "start_set_time", "start_set_error", "start_set_running",
             "start_set_backend", "start_spawn_drain"}
StopPcs == {"stop_take", "stop_kill", "stop_config", "stop_time", "stop_running",
            "stop_backend"}
StatusPcs == {"status_lock_child", "status_lock_config", "status_lock_time",
              "status_lock_error", "status_lock_backend"}

\* StreamingState::default (streaming.rs:101-111), no command running,
\* no process spawned
Default ==
  /\ stream_child = None
  /\ current_config = None
  /\ start_time = None
  /\ last_error = None
  /\ is_running = FALSE
  /\ current_backend = None
  /\ holder = [l \in LockNames |-> 0]
  /\ pc = [t \in Threads |-> "idle"]
  /\ config = [t \in Threads |-> None]
  /\ child = [t \in Threads |-> None]
  /\ ret = NoRet
  /\ calls = 0
  /\ nSpawned = 0
  /\ proc = [c \in Children |-> "unborn"]
  /\ rx = [c \in Children |-> <<>>]
  /\ drain = [c \in Children |-> "none"]
  /\ alone = TRUE
  /\ okChild = 0
  /\ okAlone = FALSE
  /\ okConfig = None
  /\ errEmitted = [c \in Children |-> FALSE]

\* no function is being applied
NoCall ==
  /\ call_pc = "idle"
  /\ call_in = None
  /\ call_local = None
  /\ call_out = None

Init == Default /\ NoCall


----------------------------------------------------------------------------
\* A command is invoked (main.rs:39-45 registers the handlers; each invocation
\* runs as its own task of the async runtime).

Busy(t) == pc[t] # "idle"
StopCalled == \E t \in Threads : pc[t] \in StopPcs

\* the thread enters a command at its first position
Invoke(t, first) ==
  /\ pc[t] = "idle"
  /\ calls < MaxCalls
  /\ calls' = calls + 1
  /\ pc' = [pc EXCEPT ![t] = first]
  /\ alone' = \A u \in Threads : ~Busy(u)
  /\ ret' = NoRet
  /\ UNCHANGED <<child, frame>>

\* the thread leaves its command with result r
Return(t, r) ==
  /\ pc' = [pc EXCEPT ![t] = "idle"]
  /\ ret' = r
  /\ config' = [config EXCEPT ![t] = None]
  /\ child' = [child EXCEPT ![t] = None]
  /\ UNCHANGED <<calls, alone, frame>>

\* the thread moves to position next
Goto(t, next) ==
  /\ pc' = [pc EXCEPT ![t] = next]
  /\ ret' = NoRet
  /\ UNCHANGED <<calls, alone, frame>>

CallStart(t, c) ==
  /\ Invoke(t, "start_check")
  /\ config' = [config EXCEPT ![t] = Some(c)]
  /\ UNCHANGED <<slots, holder, procs, hist>>

CallStop(t) ==
  /\ Invoke(t, "stop_take")
  /\ okChild' = 0
  /\ okAlone' = FALSE
  /\ okConfig' = None
  /\ UNCHANGED <<slots, holder, config, procs, errEmitted>>

CallStatus(t) ==
  /\ Invoke(t, "status_lock_child")
  /\ UNCHANGED <<slots, holder, config, procs, hist>>

----------------------------------------------------------------------------
\* start_stream (streaming.rs:316-414)

\* StartCheck testing the running flag where the code tests the child slot
StartCheckRunningFlag(t) ==
  /\ pc[t] = "start_check"
  /\ free("is_running")
  /\ IF is_running
       THEN Return(t, Err("start", "Already streaming"))
       ELSE Goto(t, "start_spawn") /\ UNCHANGED <<config, child>>
  /\ UNCHANGED <<slots, holder, procs, hist>>

\* streaming.rs:322-327: reject when a child is held
StartCheck(t) ==
  /\ pc[t] = "start_check"
  /\ free("stream_child")
  /\ IF is_some(stream_child)
       THEN Return(t, Err("start", "Already streaming"))
       ELSE Goto(t, "start_spawn") /\ UNCHANGED <<config, child>>
  /\ UNCHANGED <<slots, holder, procs, hist>>

\* streaming.rs:329-352: build the arguments (the builders never return Err)
\* and spawn the sidecar; the new process and its channel exist from here on
StartSpawnOk(t) ==
  /\ pc[t] = "start_spawn"
  /\ nSpawned < MaxSpawn
  /\ nSpawned' = nSpawned + 1
  /\ proc' = [proc EXCEPT ![nSpawned + 1] = "alive"]
  /\ child' = [child EXCEPT ![t] = Some(nSpawned + 1)]
  /\ Goto(t, "start_set_child")
  /\ UNCHANGED <<slots, holder, config, rx, drain, hist>>

\* StartSpawnFail resetting last_error before it returns the error
StartSpawnFailClearsError(t) ==
  /\ pc[t] = "start_spawn"
  /\ free("last_error")
  /\ last_error' = None
  /\ Return(t, Err("start", "Failed to spawn " \o command_name(unwrap(config[t]).backend)))
  /\ UNCHANGED <<stream_child, current_config, start_time, is_running, current_backend,
                 holder, procs, hist>>

\* streaming.rs:347-352: new_sidecar or spawn fails
StartSpawnFail(t) ==
  /\ pc[t] = "start_spawn"
  /\ Return(t, Err("start", "Failed to spawn " \o command_name(unwrap(config[t]).backend)))
  /\ UNCHANGED <<slots, holder, procs, hist>>

\* StartSetChild with the guard of the child slot kept after the block
StartSetChildKeepsGuard(t) ==
  /\ pc[t] = "start_set_child"
  /\ free("stream_child")
  /\ stream_child' = child[t]
  /\ holder' = [holder EXCEPT !["stream_child"] = t]
  /\ Goto(t, "start_set_config")
  /\ UNCHANGED <<current_config, start_time, last_error, is_running, current_backend,
                 config, child, procs, hist>>

\* streaming.rs:354-357
StartSetChild(t) ==
  /\ pc[t] = "start_set_child"
  /\ free("stream_child")
  /\ stream_child' = child[t]
  /\ Goto(t, "start_set_config")
  /\ UNCHANGED <<current_config, start_time, last_error, is_running, current_backend,
                 holder, config, child, procs, hist>>

\* streaming.rs:358-361
StartSetConfig(t) ==
  /\ pc[t] = "start_set_config"
  /\ free("current_config")
  /\ current_config' = config[t]
  /\ Goto(t, "start_set_time")
  /\ UNCHANGED <<stream_child, start_time, last_error, is_running, current_backend,
                 holder, config, child, procs, hist>>

\* streaming.rs:362-365
StartSetTime(t) ==
  /\ pc[t] = "start_set_time"
  /\ free("start_time")
  /\ start_time' = Some("Instant")
  /\ Goto(t, "start_set_error")
  /\ UNCHANGED <<stream_child, current_config, last_error, is_running, current_backend,
                 holder, config, child, procs, hist>>

\* streaming.rs:366-369
StartSetError(t) ==
  /\ pc[t] = "start_set_error"
  /\ free("last_error")
  /\ last_error' = None
  /\ Goto(t, "start_set_running")
  /\ UNCHANGED <<stream_child, current_config, start_time, is_running, current_backend,
                 holder, config, child, procs, hist>>

\* streaming.rs:370-373
StartSetRunning(t) ==
  /\ pc[t] = "start_set_running"
  /\ free("is_running")
  /\ is_running' = TRUE
  /\ Goto(t, "start_set_backend")
  /\ UNCHANGED <<stream_child, current_config, start_time, last_error, current_backend,
                 holder, config, child, procs, hist>>

\* streaming.rs:374-377
StartSetBackend(t) ==
  /\ pc[t] = "start_set_backend"
  /\ free("current_backend")
  /\ current_backend' = Some(unwrap(config[t]).backend)
  /\ Goto(t, "start_spawn_drain")
  /\ UNCHANGED <<stream_child, current_config, start_time, last_error, is_running,
                 holder, config, child, procs, hist>>

\* streaming.rs:379-413: spawn the drain task on the child's channel, return Ok
StartSpawnDrain(t) ==
  /\ pc[t] = "start_spawn_drain"
  /\ drain' = [drain EXCEPT ![unwrap(child[t])] = "running"]
  /\ okChild' = IF StopCalled THEN okChild ELSE unwrap(child[t])
  /\ okAlone' = IF StopCalled THEN okAlone ELSE alone
  /\ okConfig' = IF StopCalled THEN okConfig ELSE config[t]
  /\ Return(t, Ok("start"))
  /\ UNCHANGED <<slots, holder, nSpawned, proc, rx, errEmitted>>

----------------------------------------------------------------------------
\* stop_stream (streaming.rs:418-449)

\* streaming.rs:421-424: child_lock.take()
StopTake(t) ==
  /\ pc[t] = "stop_take"
  /\ free("stream_child")
  /\ child' = [child EXCEPT ![t] = stream_child]
  /\ stream_child' = None
  /\ Goto(t, IF is_some(stream_child) THEN "stop_kill" ELSE "stop_config")
  /\ UNCHANGED <<current_config, start_time, last_error, is_running, current_backend,
                 holder, config, procs, hist>>

\* streaming.rs:426-429: let _ = child.kill(); killing a process that has
\* already exited changes nothing
StopKill(t) ==
  /\ pc[t] = "stop_kill"
  /\ proc' = [proc EXCEPT ![unwrap(child[t])] = IF @ = "alive" THEN "killed" ELSE @]
  /\ Goto(t, "stop_config")
  /\ UNCHANGED <<slots, holder, config, child, nSpawned, rx, drain, hist>>

\* streaming.rs:431-434
StopConfig(t) ==
  /\ pc[t] = "stop_config"
  /\ free("current_config")
  /\ current_config' = None
  /\ Goto(t, "stop_time")
  /\ UNCHANGED <<stream_child, start_time, last_error, is_running, current_backend,
                 holder, config, child, procs, hist>>

\* streaming.rs:435-438
StopTime(t) ==
  /\ pc[t] = "stop_time"
  /\ free("start_time")
  /\ start_time' = None
  /\ Goto(t, "stop_running")
  /\ UNCHANGED <<stream_child, current_config, last_error, is_running, current_backend,
                 holder, config, child, procs, hist>>

\* StopRunning resetting last_error together with the running flag
StopRunningClearsError(t) ==
  /\ pc[t] = "stop_running"
  /\ free("is_running")
  /\ free("last_error")
  /\ is_running' = FALSE
  /\ last_error' = None
  /\ Goto(t, "stop_backend")
  /\ UNCHANGED <<stream_child, current_config, start_time, current_backend,
                 holder, config, child, procs, hist>>

\* streaming.rs:439-442
StopRunning(t) ==
  /\ pc[t] = "stop_running"
  /\ free("is_running")
  /\ is_running' = FALSE
  /\ Goto(t, "stop_backend")
  /\ UNCHANGED <<stream_child, current_config, start_time, last_error, current_backend,
                 holder, config, child, procs, hist>>

\* streaming.rs:443-448
StopBackend(t) ==
  /\ pc[t] = "stop_backend"
  /\ free("current_backend")
  /\ current_backend' = None
  /\ Return(t, Ok("stop"))
  /\ UNCHANGED <<stream_child, current_config, start_time, last_error, is_running,
                 holder, procs, hist>>

----------------------------------------------------------------------------
\* get_stream_status (streaming.rs:453-479): the guards are taken one after
\* the other and all kept until the function returns.

\* one lock() of streaming.rs:456-459, the guard kept
StatusLock(t, at, l, next) ==
  /\ pc[t] = at
  /\ free(l)
  /\ holder' = [holder EXCEPT ![l] = t]
  /\ Goto(t, next)
  /\ UNCHANGED <<slots, config, child, procs, hist>>

\* streaming.rs:456
StatusLockChild(t) ==
  StatusLock(t, "status_lock_child", "stream_child", "status_lock_config")

\* streaming.rs:457
StatusLockConfig(t) ==
  StatusLock(t, "status_lock_config", "current_config", "status_lock_time")

\* streaming.rs:458
StatusLockTime(t) ==
  StatusLock(t, "status_lock_time", "start_time", "status_lock_error")

\* streaming.rs:459
StatusLockError(t) ==
  StatusLock(t, "status_lock_error", "last_error", "status_lock_backend")

\* streaming.rs:462-478: the StreamStatus built from the guarded slots, with
\* elapsed the value of start_time.elapsed().as_secs()
StreamStatus(elapsed) ==
  [ active |-> is_some(stream_child),
    source_id |-> IF is_some(current_config)
                    THEN Some(unwrap(current_config).source_id) ELSE None,
    whip_url |-> IF is_some(current_config)
                   THEN Some(unwrap(current_config).whip_url) ELSE None,
    duration_seconds |-> IF is_some(start_time) THEN elapsed ELSE 0,
    error |-> last_error,
    backend |-> IF is_some(current_backend)
                  THEN Some(backend_name(unwrap(current_backend))) ELSE None ]

\* streaming.rs:460-479: take the last guard, build the status, drop all guards
StatusReturn(t) ==
  /\ pc[t] = "status_lock_backend"
  /\ free("current_backend")
  /\ \E elapsed \in 0..MaxElapsed : Return(t, OkStatus(StreamStatus(elapsed)))
  /\ holder' = [l \in LockNames |-> IF holder[l] = t THEN 0 ELSE holder[l]]
  /\ UNCHANGED <<slots, procs, hist>>

----------------------------------------------------------------------------
\* The sidecar process and its event channel (tauri::api::process::Command):
\* stdout and stderr lines while the process lives, and one Terminated event
\* once the process is gone and all its output has been delivered.

\* the process writes a line, or the channel reports an error
ChildEmit(c, ev) ==
  /\ proc[c] = "alive"
  /\ Len(rx[c]) < ChanCap
  /\ rx' = [rx EXCEPT ![c] = Append(@, ev)]
  /\ errEmitted' = [errEmitted EXCEPT ![c] =
                      @ \/ (ev.kind = "Stderr" /\ is_error_line(ev.line))]
  /\ ret' = NoRet
  /\ UNCHANGED <<slots, holder, tasks, nSpawned, proc, drain,
                 okChild, okAlone, okConfig, frame>>

\* the process exits by itself
ChildExit(c) ==
  /\ proc[c] = "alive"
  /\ proc' = [proc EXCEPT ![c] = "exited"]
  /\ ret' = NoRet
  /\ UNCHANGED <<slots, holder, tasks, nSpawned, rx, drain, hist, frame>>

----------------------------------------------------------------------------
\* The drain task (streaming.rs:382-411), one per spawned child.

\* rx.recv() delivers a line or error event of the given kind
Recv(c, kind) ==
  /\ drain[c] = "running"
  /\ rx[c] # <<>>
  /\ Head(rx[c]).kind = kind
  /\ rx' = [rx EXCEPT ![c] = Tail(@)]
  /\ ret' = NoRet
  /\ UNCHANGED frame

\* streaming.rs:385-393
DrainStderr(c) ==
  /\ Recv(c, "Stderr")
  /\ IF is_error_line(Head(rx[c]).line)
       THEN /\ free("last_error")
            /\ last_error' = Some(Head(rx[c]).line)
       ELSE UNCHANGED last_error
  /\ UNCHANGED <<stream_child, current_config, start_time, is_running, current_backend,
                 holder, tasks, nSpawned, proc, drain, hist>>

\* streaming.rs:394-397
DrainStdout(c) ==
  /\ Recv(c, "Stdout")
  /\ UNCHANGED <<slots, holder, tasks, nSpawned, proc, drain, hist>>

\* DrainTerminated leaving the loop without resetting the running flag
DrainTerminatedKeepsRunning(c) ==
  /\ drain[c] = "running"
  /\ rx[c] = <<>>
  /\ proc[c] \in {"exited", "killed"}
  /\ drain' = [drain EXCEPT ![c] = "done"]
  /\ ret' = NoRet
  /\ UNCHANGED <<slots, holder, tasks, nSpawned, proc, rx, hist, frame>>

\* streaming.rs:398-407: rx.recv() delivers Terminated, the last event of a
\* process that has exited or been killed
DrainTerminated(c) ==
  /\ drain[c] = "running"
  /\ rx[c] = <<>>
  /\ proc[c] \in {"exited", "killed"}
  /\ free("is_running")
  /\ is_running' = FALSE
  /\ drain' = [drain EXCEPT ![c] = "done"]
  /\ ret' = NoRet
  /\ UNCHANGED <<stream_child, current_config, start_time, last_error, current_backend,
                 holder, tasks, nSpawned, proc, rx, hist, frame>>

\* streaming.rs:408
DrainOther(c) ==
  /\ Recv(c, "Error")
  /\ UNCHANGED <<slots, holder, tasks, nSpawned, proc, drain, hist>>

----------------------------------------------------------------------------
\* a command is invoked on an idle thread
Call(t) ==
  \/ \E c \in Configs : CallStart(t, c)
  \/ CallStop(t)
  \/ CallStatus(t)

\* one step of the command the thread is in
Command(t) ==
  \/ StartCheck(t)
  \/ StartSpawnOk(t)
  \/ StartSpawnFail(t)
  \/ StartSetChild(t)
  \/ StartSetConfig(t)
  \/ StartSetTime(t)
  \/ StartSetError(t)
  \/ StartSetRunning(t)
  \/ StartSetBackend(t)
  \/ StartSpawnDrain(t)
  \/ StopTake(t)
  \/ StopKill(t)
  \/ StopConfig(t)
  \/ StopTime(t)
  \/ StopRunning(t)
  \/ StopBackend(t)
  \/ StatusLockChild(t)
  \/ StatusLockConfig(t)
  \/ StatusLockTime(t)
  \/ StatusLockError(t)
  \/ StatusReturn(t)

\* the life of a sidecar that writes nothing: it exits, its drain task ends
Sidecar(c) ==
  \/ ChildExit(c)
  \/ DrainTerminated(c)

\* the output of a sidecar and its handling by the drain task
Output(c) ==
  \/ \E ev \in Events : ChildEmit(c, ev)
  \/ DrainStderr(c)
  \/ DrainStdout(c)
  \/ DrainOther(c)

\* no command is in progress
Quiet == \A t \in Threads : ~Busy(t)

\* Commands run in parallel, as the tasks of the async runtime do; the sidecars
\* write no output.
Next ==
  \/ \E t \in Threads : Call(t) \/ Command(t)
  \/ \E c \in Children : Sidecar(c)

Spec == Init /\ [][Next]_vars

\* Commands are invoked one after the other, each after the previous one has
\* returned; the sidecars and the drain tasks run in parallel with them, and the
\* sidecars write output.
NextSeq ==
  \/ \E t \in Threads : (Quiet /\ calls < MaxSeqCalls /\ Call(t)) \/ Command(t)
  \/ \E c \in Children : Sidecar(c) \/ Output(c)

SpecSeq == Init /\ [][NextSeq]_vars

\* the events that carry an error line on standard error
ErrorEvents == {ev \in Events : ev.kind = "Stderr" /\ is_error_line(ev.line)}

\* Commands run in parallel while the sidecars write error lines and their
\* drain tasks record them: every task that takes a lock is running.
NextPar ==
  \/ \E t \in Threads : (calls < MaxParCalls /\ Call(t)) \/ Command(t)
  \/ \E c \in Children :
       \/ Sidecar(c)
       \/ \E ev \in ErrorEvents : ChildEmit(c, ev)
       \/ DrainStderr(c)

SpecPar == Init /\ [][NextPar]_vars

\* one step of the drain task of the child
Drain(c) ==
  \/ DrainStderr(c)
  \/ DrainStdout(c)
  \/ DrainOther(c)
  \/ DrainTerminated(c)

\* SpecSeq with the tasks of the async runtime scheduled fairly: a command or
\* a drain task that can take its next step eventually takes it
SpecSeqFair ==
  /\ SpecSeq
  /\ \A t \in Threads : WF_vars(Command(t))
  /\ \A c \in Children : WF_vars(Drain(c))

----------------------------------------------------------------------------
\* Text: the str methods used on the output of a sidecar run.

\* char::is_whitespace
is_whitespace(ch) == ch \in {" ", "\t", "\n", "\r"}

\* the least element of a non-empty set of numbers
Least(S) == CHOOSE i \in S : \A j \in S : i <= j

\* str::lines().next(): the text before the first line feed, without a
\* carriage return that ends it; None for the empty text
first_line(text) ==
  IF text = <<>> THEN None
  ELSE LET feeds == {i \in 1..Len(text) : text[i] = "\n"}
           stop == IF feeds = {} THEN Len(text) ELSE Least(feeds) - 1
           line == SubSeq(text, 1, stop)
       IN  IF stop > 0 /\ line[stop] = "\r"
             THEN Some(SubSeq(line, 1, stop - 1))
             ELSE Some(line)

\* str::split_whitespace(): the maximal runs of non-whitespace characters
RECURSIVE split_whitespace(_)
split_whitespace(text) ==
  IF text = <<>> THEN <<>>
  ELSE IF is_whitespace(Head(text)) THEN split_whitespace(Tail(text))
  ELSE LET gaps == {i \in 1..Len(text) : is_whitespace(text[i])}
           stop == IF gaps = {} THEN Len(text) ELSE Least(gaps) - 1
       IN  <<SubSeq(text, 1, stop)>> \o split_whitespace(SubSeq(text, stop + 1, Len(text)))

\* Iterator::nth(n), counting from 0
nth(seq, n) == IF Len(seq) > n THEN Some(seq[n + 1]) ELSE None

----------------------------------------------------------------------------
\* The capability probes: check_ffmpeg (streaming.rs:483-548) and
\* check_gstreamer (streaming.rs:552-618). Each run of the sidecar is
\* Command::new_sidecar(..), which may fail, then output(), which may fail or
\* deliver the text the sidecar wrote.

\* the state of the supervisor and of its sidecars
supervisor == <<slots, holder, tasks, ret, procs, hist>>

\* what `ffmpeg -version` may write to stdout
FfmpegVersionOutputs ==
  { <<"f", "f", "m", "p", "e", "g", " ", "v", "e", "r", "s", "i", "o", "n",
      " ", "6", ".", "0", "\n", "b", "u", "i", "l", "t">>,
    <<"f", "f", "m", "p", "e", "g">>,
    <<>> }

\* what `ffmpeg -encoders -hide_banner` may write to stdout
FfmpegEncodersOutputs ==
  { <<" ", "V", " ", "h", "2", "6", "4", "_", "n", "v", "e", "n", "c", "\n",
      " ", "V", " ", "l", "i", "b", "x", "2", "6", "4">>,
    <<" ", "V", " ", "h", "2", "6", "4", "_", "q", "s", "v", "\n", " ", "V",
      " ", "h", "2", "6", "4", "_", "a", "m", "f", "\n", " ", "V", " ", "h",
      "2", "6", "4", "_", "m", "f">>,
    <<>> }

\* what `ffmpeg -muxers -hide_banner` may write to stdout
FfmpegMuxersOutputs ==
  { <<" ", "E", " ", "w", "h", "i", "p", " ", "W", "H", "I", "P">>,
    <<" ", "E", " ", "m", "p", "4", "\n", "w", "h", "i", "p">> }

\* what `gst-launch-1.0 --version` may write to stdout
GstVersionOutputs ==
  { <<"g", "s", "t", "-", "l", "a", "u", "n", "c", "h", "-", "1", ".", "0",
      " ", "1", ".", "2", "4", "\r", "\n", "G", "S", "t", "r", "e", "a", "m",
      "e", "r">>,
    <<>> }

\* what `gst-launch-1.0 --gst-plugin-help` may write to stdout and stderr
GstHelpOutputs ==
  { [stdout |-> <<"w", "h", "i", "p", "c", "l", "i", "e", "n", "t", "s", "i", "n", "k", " ", "d", "3", "d", "1", "1">>,
     stderr |-> <<"x", "2", "6", "4">>],
    [stdout |-> <<"r", "s", "w", "e", "b", "r", "t", "c">>,
     stderr |-> <<"o", "p", "e", "n", "h", "2", "6", "4">>],
    [stdout |-> <<>>, stderr |-> <<>>] }

\* the tokens searched in the outputs (streaming.rs:517-540, 598-601)
h264_nvenc == <<"h", "2", "6", "4", "_", "n", "v", "e", "n", "c">>
h264_qsv == <<"h", "2", "6", "4", "_", "q", "s", "v">>
h264_amf == <<"h", "2", "6", "4", "_", "a", "m", "f">>
h264_mf == <<"h", "2", "6", "4", "_", "m", "f">>
libx264 == <<"l", "i", "b", "x", "2", "6", "4">>
whip_muxer == <<" ", "w", "h", "i", "p", " ">>
whipclientsink == <<"w", "h", "i", "p", "c", "l", "i", "e", "n", "t", "s", "i", "n", "k">>
rswebrtc == <<"r", "s", "w", "e", "b", "r", "t", "c">>
d3d11 == <<"d", "3", "d", "1", "1">>
x264 == <<"x", "2", "6", "4">>
openh264 == <<"o", "p", "e", "n", "h", "2", "6", "4">>

\* Result values of the probes
ProbeOk(info) == [ok |-> TRUE, info |-> Some(info), err |-> ""]
ProbeErr(e) == [ok |-> FALSE, info |-> None, err |-> e]

\* the probe returns r
ProbeReturn(r) ==
  /\ call_pc' = "idle"
  /\ call_local' = None
  /\ call_out' = r
  /\ UNCHANGED <<call_in, supervisor>>

\* the probe moves to position next with locals l
ProbeGoto(next, l) ==
  /\ call_pc' = next
  /\ call_local' = Some(l)
  /\ UNCHANGED <<call_in, call_out, supervisor>>

\* check_ffmpeg is invoked
CallCheckFfmpeg ==
  /\ call_pc = "idle"
  /\ call_pc' = "ffmpeg_version"
  /\ UNCHANGED <<call_in, call_local, call_out, supervisor>>

\* streaming.rs:484-485: new_sidecar fails, the error is returned by `?`
FfmpegVersionCreateFails ==
  /\ call_pc = "ffmpeg_version"
  /\ ProbeReturn(ProbeErr("new_sidecar"))

\* streaming.rs:487-499: output() fails, the probe reports unavailable
FfmpegVersionRunFails ==
  /\ call_pc = "ffmpeg_version"
  /\ ProbeReturn(ProbeOk([available |-> FALSE, version |-> None,
                          encoders |-> <<>>, whip_support |-> FALSE]))

\* the version string of streaming.rs:501-506
ffmpeg_version(stdout) ==
  IF is_some(first_line(stdout))
    THEN nth(split_whitespace(unwrap(first_line(stdout))), 2)
    ELSE None

\* streaming.rs:487-506: the version run succeeds
FfmpegVersionOk ==
  /\ call_pc = "ffmpeg_version"
  /\ \E stdout \in FfmpegVersionOutputs :
       ProbeGoto("ffmpeg_encoders", [version |-> ffmpeg_version(stdout), encoders |-> <<>>])

\* streaming.rs:508-509: new_sidecar fails, the error is returned by `?`
FfmpegEncodersCreateFails ==
  /\ call_pc = "ffmpeg_encoders"
  /\ ProbeReturn(ProbeErr("new_sidecar"))

\* streaming.rs:510-512: output() fails, the error is returned by `?`
FfmpegEncodersRunFails ==
  /\ call_pc = "ffmpeg_encoders"
  /\ ProbeReturn(ProbeErr("output"))

\* the encoders list of streaming.rs:515-531
ffmpeg_encoders(stdout) ==
  (IF contains(stdout, h264_nvenc) THEN <<"nvenc">> ELSE <<>>) \o
  (IF contains(stdout, h264_qsv) THEN <<"qsv">> ELSE <<>>) \o
  (IF contains(stdout, h264_amf) THEN <<"amf">> ELSE <<>>) \o
  (IF contains(stdout, h264_mf) THEN <<"mf">> ELSE <<>>) \o
  (IF contains(stdout, libx264) THEN <<"x264">> ELSE <<>>)

\* streaming.rs:508-531: the encoders run succeeds
FfmpegEncodersOk ==
  /\ call_pc = "ffmpeg_encoders"
  /\ \E stdout \in FfmpegEncodersOutputs :
       ProbeGoto("ffmpeg_muxers", [unwrap(call_local) EXCEPT !.encoders = ffmpeg_encoders(stdout)])

\* streaming.rs:533-534: new_sidecar fails, the error is returned by `?`
FfmpegMuxersCreateFails ==
  /\ call_pc = "ffmpeg_muxers"
  /\ ProbeReturn(ProbeErr("new_sidecar"))

\* streaming.rs:535-537: output() fails, the error is returned by `?`
FfmpegMuxersRunFails ==
  /\ call_pc = "ffmpeg_muxers"
  /\ ProbeReturn(ProbeErr("output"))

\* streaming.rs:533-547: the muxers run succeeds, the record is returned
FfmpegMuxersOk ==
  /\ call_pc = "ffmpeg_muxers"
  /\ \E stdout \in FfmpegMuxersOutputs :
       ProbeReturn(ProbeOk([available |-> TRUE,
                            version |-> unwrap(call_local).version,
                            encoders |-> unwrap(call_local).encoders,
                            whip_support |-> contains(stdout, whip_muxer)]))

\* check_gstreamer is invoked
CallCheckGstreamer ==
  /\ call_pc = "idle"
  /\ call_pc' = "gst_version"
  /\ UNCHANGED <<call_in, call_local, call_out, supervisor>>

\* the record returned when the version run fails (streaming.rs:566-573)
GstUnavailable ==
  [available |-> FALSE, version |-> None, has_whip |-> FALSE, has_d3d11 |-> FALSE,
   has_x264 |-> FALSE, has_openh264 |-> FALSE]

\* the record of streaming.rs:610-617 for the output of the plugin-help run
GStreamerInfo(version, help_str) ==
  [available |-> TRUE, version |-> version,
   has_whip |-> contains(help_str, whipclientsink) \/ contains(help_str, rswebrtc),
   has_d3d11 |-> contains(help_str, d3d11),
   has_x264 |-> contains(help_str, x264),
   has_openh264 |-> contains(help_str, openh264)]

\* streaming.rs:556-557: new_sidecar fails, the error is returned by `?`
GstVersionCreateFails ==
  /\ call_pc = "gst_version"
  /\ ProbeReturn(ProbeErr("new_sidecar"))

\* streaming.rs:558-575: output() fails, the probe reports unavailable
GstVersionRunFails ==
  /\ call_pc = "gst_version"
  /\ ProbeReturn(ProbeOk(GstUnavailable))

\* streaming.rs:558-581: the version run succeeds
GstVersionOk ==
  /\ call_pc = "gst_version"
  /\ \E stdout \in GstVersionOutputs :
       ProbeGoto("gst_plugin_help", [version |-> first_line(stdout)])

\* streaming.rs:591: new_sidecar fails, the flags stay false
GstHelpCreateFails ==
  /\ call_pc = "gst_plugin_help"
  /\ ProbeReturn(ProbeOk(GStreamerInfo(unwrap(call_local).version, <<>>)))

\* streaming.rs:592-596: output() fails, the flags stay false
GstHelpRunFails ==
  /\ call_pc = "gst_plugin_help"
  /\ ProbeReturn(ProbeOk(GStreamerInfo(unwrap(call_local).version, <<>>)))

\* streaming.rs:592-617: the plugin-help run succeeds
GstHelpOk ==
  /\ call_pc = "gst_plugin_help"
  /\ \E output \in GstHelpOutputs :
       ProbeReturn(ProbeOk(GStreamerInfo(unwrap(call_local).version,
                                         output.stdout \o output.stderr)))

\* The probes, called one after the other on a host where every sidecar run
\* may fail or succeed.
NextProbe ==
  \/ CallCheckFfmpeg
  \/ FfmpegVersionCreateFails
  \/ FfmpegVersionRunFails
  \/ FfmpegVersionOk
  \/ FfmpegEncodersCreateFails
  \/ FfmpegEncodersRunFails
  \/ FfmpegEncodersOk
  \/ FfmpegMuxersCreateFails
  \/ FfmpegMuxersRunFails
  \/ FfmpegMuxersOk
  \/ CallCheckGstreamer
  \/ GstVersionCreateFails
  \/ GstVersionRunFails
  \/ GstVersionOk
  \/ GstHelpCreateFails
  \/ GstHelpRunFails
  \/ GstHelpOk

SpecProbe == Init /\ [][NextProbe]_vars

----------------------------------------------------------------------------
\* list_capture_sources (streaming.rs:137-171) and, on Windows,
\* list_windows_sources_safe (streaming.rs:174-278). Texts are sequences of
\* characters.

\* str::starts_with
starts_with(text, prefix) ==
  Len(prefix) <= Len(text) /\ SubSeq(text, 1, Len(prefix)) = prefix

\* title.replace("\"", "\\\"") (streaming.rs:256)
RECURSIVE escape_quotes(_)
escape_quotes(text) ==
  IF text = <<>> THEN <<>>
  ELSE (IF Head(text) = "\"" THEN <<"\\", "\"">> ELSE <<Head(text)>>)
       \o escape_quotes(Tail(text))

\* the skip_titles array of streaming.rs:223-233
skip_titles ==
  << <<"P", "r", "o", "g", "r", "a", "m", " ", "M", "a", "n", "a", "g", "e", "r">>,
     <<"W", "i", "n", "d", "o", "w", "s", " ", "I", "n", "p", "u", "t", " ", "E", "x", "p", "e", "r", "i", "e", "n", "c", "e">>,
     <<"M", "i", "c", "r", "o", "s", "o", "f", "t", " ", "T", "e", "x", "t", " ", "I", "n", "p", "u", "t">>,
     <<"N", "V", "I", "D", "I", "A", " ", "G", "e", "F", "o", "r", "c", "e", " ", "O", "v", "e", "r", "l", "a", "y">>,
     <<"A", "M", "D", " ", "S", "o", "f", "t", "w", "a", "r", "e">>,
     <<"S", "e", "t", "t", "i", "n", "g", "s">>,
     <<"T", "a", "s", "k", " ", "V", "i", "e", "w">>,
     <<"S", "e", "a", "r", "c", "h">>,
     <<>> >>

\* the entry pushed first (streaming.rs:184-190) and returned as the fallback
\* (streaming.rs:151-157)
DesktopWindows ==
  [id |-> <<"d", "e", "s", "k", "t", "o", "p">>,
   name |-> <<"D", "e", "s", "k", "t", "o", "p", " ", "(", "F", "u", "l", "l", " ", "S", "c", "r", "e", "e", "n", ")">>,
   source_type |-> "screen", width |-> None, height |-> None]

\* the entry returned on the other platforms (streaming.rs:163-169)
DesktopOther ==
  [id |-> <<"d", "e", "s", "k", "t", "o", "p">>,
   name |-> <<"D", "e", "s", "k", "t", "o", "p">>,
   source_type |-> "screen", width |-> None, height |-> None]

\* the entry pushed for a window (streaming.rs:256-267)
WindowSource(title, width, height) ==
  [id |-> <<"t", "i", "t", "l", "e", "=">> \o escape_quotes(title),
   name |-> IF Len(title) > 45 THEN SubSeq(title, 1, 42) \o <<".", ".", ".">> ELSE title,
   source_type |-> "window", width |-> Some(width), height |-> Some(height)]

\* enum_callback testing the title against the eight named system titles only
enum_callback_named_titles(sources, w) ==
  LET skip == [sources |-> sources, go |-> TRUE] IN
  IF ~w.visible THEN skip
  ELSE IF w.tool THEN skip
  ELSE IF Len(w.title) = 0 THEN skip
  ELSE IF ~w.text_ok THEN skip
  ELSE IF \E i \in 1..8 :
            starts_with(w.title, skip_titles[i]) \/ w.title = skip_titles[i] THEN skip
  ELSE IF ~w.rect_ok THEN skip
  ELSE IF w.width < 200 \/ w.height < 150 THEN skip
  ELSE IF Len(sources) >= 21 THEN [sources |-> sources, go |-> FALSE]
  ELSE [sources |-> Append(sources, WindowSource(w.title, w.width, w.height)),
        go |-> TRUE]

\* enum_callback (streaming.rs:194-271) applied to window w with the list
\* sources: the list afterwards, and whether the enumeration goes on (BOOL(1))
enum_callback(sources, w) ==
  LET skip == [sources |-> sources, go |-> TRUE] IN
  IF ~w.visible THEN skip
  ELSE IF w.tool THEN skip
  ELSE IF Len(w.title) = 0 THEN skip
  ELSE IF ~w.text_ok THEN skip
  ELSE IF \E i \in 1..Len(skip_titles) :
            starts_with(w.title, skip_titles[i]) \/ w.title = skip_titles[i] THEN skip
  ELSE IF ~w.rect_ok THEN skip
  ELSE IF w.width < 200 \/ w.height < 150 THEN skip
  ELSE IF Len(sources) >= 21 THEN [sources |-> sources, go |-> FALSE]
  ELSE [sources |-> Append(sources, WindowSource(w.title, w.width, w.height)),
        go |-> TRUE]

\* Top-level windows as the callback sees them: IsWindowVisible, the
\* WS_EX_TOOLWINDOW bit, the title (empty when GetWindowTextLengthW is 0),
\* whether GetWindowTextW delivers it, whether GetWindowRect succeeds, and the
\* width and height of the rectangle.
Windows ==
  { [visible |-> TRUE, tool |-> FALSE, title |-> <<"M", "y", " ", "G", "a", "m", "e">>,
     text_ok |-> TRUE, rect_ok |-> TRUE, width |-> 800, height |-> 600],
    [visible |-> FALSE, tool |-> FALSE, title |-> <<"M", "y", " ", "G", "a", "m", "e">>,
     text_ok |-> TRUE, rect_ok |-> TRUE, width |-> 800, height |-> 600],
    [visible |-> TRUE, tool |-> TRUE, title |-> <<"M", "y", " ", "G", "a", "m", "e">>,
     text_ok |-> TRUE, rect_ok |-> TRUE, width |-> 800, height |-> 600],
    [visible |-> TRUE, tool |-> FALSE, title |-> <<>>,
     text_ok |-> TRUE, rect_ok |-> TRUE, width |-> 800, height |-> 600],
    [visible |-> TRUE, tool |-> FALSE, title |-> <<"S", "e", "t", "t", "i", "n", "g", "s">>,
     text_ok |-> TRUE, rect_ok |-> TRUE, width |-> 800, height |-> 600],
    [visible |-> TRUE, tool |-> FALSE, title |-> <<"M", "y", " ", "G", "a", "m", "e">>,
     text_ok |-> TRUE, rect_ok |-> TRUE, width |-> 199, height |-> 600],
    [visible |-> TRUE, tool |-> FALSE, title |-> <<"M", "y", " ", "G", "a", "m", "e">>,
     text_ok |-> TRUE, rect_ok |-> TRUE, width |-> 800, height |-> 149],
    [visible |-> TRUE, tool |-> FALSE, title |-> <<"M", "y", " ", "G", "a", "m", "e">>,
     text_ok |-> TRUE, rect_ok |-> FALSE, width |-> 800, height |-> 600],
    [visible |-> TRUE, tool |-> FALSE, title |-> <<"M", "y", " ", "G", "a", "m", "e">>,
     text_ok |-> FALSE, rect_ok |-> TRUE, width |-> 800, height |-> 600],
    [visible |-> TRUE, tool |-> FALSE, title |-> <<"a", "\"", "b">>,
     text_ok |-> TRUE, rect_ok |-> TRUE, width |-> 200, height |-> 150] }

\* the sequences over S of length at most n
RECURSIVE SeqsUpTo(_, _)
SeqsUpTo(S, n) ==
  IF n = 0 THEN {<<>>}
  ELSE LET shorter == SeqsUpTo(S, n - 1)
       IN  shorter \cup {Append(q, x) : q \in shorter, x \in S}

\* a visible 800 x 600 window titled My Game
GameWindow ==
  [visible |-> TRUE, tool |-> FALSE, title |-> <<"M", "y", " ", "G", "a", "m", "e">>,
   text_ok |-> TRUE, rect_ok |-> TRUE, width |-> 800, height |-> 600]

\* the hosts: the target platform of the build and the top-level windows in
\* the order EnumWindows visits them; one host has more windows than the cap
Hosts ==
  [os : {"windows"}, windows : SeqsUpTo(Windows, MaxWindows)] \cup
  {[os |-> "windows", windows |-> [i \in 1..MaxCrowd |-> GameWindow]]} \cup
  {[os |-> "other", windows |-> <<>>]}

\* list_capture_sources has not been called yet on some host
InitEnum ==
  /\ Default
  /\ call_pc = "idle"
  /\ call_in \in Hosts
  /\ call_local = None
  /\ call_out = None

\* streaming.rs:147-158: Ok(sources) for a non-empty list, else the fallback
ListReturn(sources) ==
  /\ call_pc' = "idle"
  /\ call_local' = None
  /\ call_out' = [ok |-> TRUE,
                  sources |-> IF sources # <<>> THEN sources ELSE <<DesktopWindows>>]
  /\ UNCHANGED <<call_in, supervisor>>

\* streaming.rs:137-145, 181-190: on Windows the list starts with the desktop
CallListCaptureSources ==
  /\ call_pc = "idle"
  /\ call_out = None
  /\ call_in.os = "windows"
  /\ call_pc' = "enum_windows"
  /\ call_local' = [sources |-> <<DesktopWindows>>, next |-> 1, go |-> TRUE]
  /\ UNCHANGED <<call_in, call_out, supervisor>>

\* streaming.rs:161-170: the other platforms
CallListCaptureSourcesOther ==
  /\ call_pc = "idle"
  /\ call_out = None
  /\ call_in.os = "other"
  /\ call_pc' = "idle"
  /\ call_out' = [ok |-> TRUE, sources |-> <<DesktopOther>>]
  /\ UNCHANGED <<call_in, call_local, supervisor>>

\* streaming.rs:274: EnumWindows calls enum_callback for the next window
EnumWindowsCallback ==
  /\ call_pc = "enum_windows"
  /\ call_local.go
  /\ call_local.next <= Len(call_in.windows)
  /\ LET r == enum_callback(call_local.sources, call_in.windows[call_local.next])
     IN  call_local' = [sources |-> r.sources, next |-> call_local.next + 1, go |-> r.go]
  /\ UNCHANGED <<call_pc, call_in, call_out, supervisor>>

\* streaming.rs:274-277: EnumWindows has visited every window, or the
\* callback has returned BOOL(0); its result is dropped
EnumWindowsReturns ==
  /\ call_pc = "enum_windows"
  /\ ~call_local.go \/ call_local.next > Len(call_in.windows)
  /\ ListReturn(call_local.sources)

\* streaming.rs:274-277: EnumWindows fails before it has visited every window;
\* its result is dropped
EnumWindowsFails ==
  /\ call_pc = "enum_windows"
  /\ call_local.go
  /\ call_local.next <= Len(call_in.windows)
  /\ ListReturn(call_local.sources)

\* list_capture_sources called once on every host
NextEnum ==
  \/ CallListCaptureSources
  \/ CallListCaptureSourcesOther
  \/ EnumWindowsCallback
  \/ EnumWindowsReturns
  \/ EnumWindowsFails

SpecEnum == InitEnum /\ [][NextEnum]_vars

----------------------------------------------------------------------------
\* Unsigned integers of the width Rust gives them. A number is the sequence
\* of its 16-bit limbs, least significant first: two limbs for a u32, four for
\* a u64. (The values exceed what TLC's own integers hold.)

\* 2^16
Limb == 65536

\* the u32 of a small number
u32(n) == <<n % Limb, n \div Limb>>

\* `as u64` on a u32
as_u64(n) == n \o <<0, 0>>

\* the number is zero
is_zero(n) == \A i \in 1..Len(n) : n[i] = 0

\* n * c + carry for a small c, wrapped to the width of n
RECURSIVE wrapping_mul(_, _, _)
wrapping_mul(n, c, carry) ==
  IF n = <<>> THEN <<>>
  ELSE LET p == Head(n) * c + carry
       IN  <<p % Limb>> \o wrapping_mul(Tail(n), c, p \div Limb)

\* n * c does not fit the width of n
mul_overflows(n, c) == wrapping_mul(n \o <<0>>, c, 0)[Len(n) + 1] # 0

\* quotient q and remainder r of n by a small d
RECURSIVE div_rem(_, _)
div_rem(n, d) ==
  IF n = <<>> THEN [q |-> <<>>, r |-> 0]
  ELSE LET high == div_rem(Tail(n), d)
           cur == high.r * Limb + Head(n)
       IN  [q |-> <<cur \div d>> \o high.q, r |-> cur % d]

\* n / d
div(n, d) == div_rem(n, d).q

\* a < b, for numbers of the same width
RECURSIVE lt(_, _)
lt(a, b) ==
  IF a = <<>> THEN FALSE
  ELSE IF Tail(a) = Tail(b) THEN Head(a) < Head(b)
  ELSE lt(Tail(a), Tail(b))

\* a <= b
le(a, b) == a = b \/ lt(a, b)

\* std::cmp::max
max(a, b) == IF lt(a, b) THEN b ELSE a

\* the decimal digits of n, most significant first, empty for zero
RECURSIVE digits(_)
digits(n) ==
  IF is_zero(n) THEN <<>>
  ELSE LET d == div_rem(n, 10)
       IN  digits(d.q) \o <<(<<"0", "1", "2", "3", "4", "5", "6", "7", "8", "9">>)[d.r + 1]>>

\* to_string / Display of an unsigned integer
to_string(n) == IF is_zero(n) THEN <<"0">> ELSE digits(n)

----------------------------------------------------------------------------
\* build_gstreamer_args (streaming.rs:621-721). Texts are sequences of
\* characters; the u32 fields of StreamConfig are limb sequences.

\* The string literals of the argument builders, each with the sequence of
\* its characters.
chars ==
  "-e" :>
    <<"-", "e">> @@
  " ! " :>
    <<" ", "!", " ">> @@
  "d3d11screencapturesrc monitor-index=0 show-cursor=true" :>
    <<"d", "3", "d", "1", "1", "s", "c", "r", "e", "e", "n", "c", "a", "p",
      "t", "u", "r", "e", "s", "r", "c", " ", "m", "o", "n", "i", "t", "o",
      "r", "-", "i", "n", "d", "e", "x", "=", "0", " ", "s", "h", "o", "w",
      "-", "c", "u", "r", "s", "o", "r", "=", "t", "r", "u", "e">> @@
  "'video/x-raw(memory:D3D11Memory),framerate=" :>
    <<"'", "v", "i", "d", "e", "o", "/", "x", "-", "r", "a", "w", "(", "m",
      "e", "m", "o", "r", "y", ":", "D", "3", "D", "1", "1", "M", "e", "m",
      "o", "r", "y", ")", ",", "f", "r", "a", "m", "e", "r", "a", "t", "e",
      "=">> @@
  "/1'" :>
    <<"/", "1", "'">> @@
  "d3d11convert" :>
    <<"d", "3", "d", "1", "1", "c", "o", "n", "v", "e", "r", "t">> @@
  "'video/x-raw(memory:D3D11Memory),format=NV12,width=" :>
    <<"'", "v", "i", "d", "e", "o", "/", "x", "-", "r", "a", "w", "(", "m",
      "e", "m", "o", "r", "y", ":", "D", "3", "D", "1", "1", "M", "e", "m",
      "o", "r", "y", ")", ",", "f", "o", "r", "m", "a", "t", "=", "N", "V",
      "1", "2", ",", "w", "i", "d", "t", "h", "=">> @@
  ",height=" :>
    <<",", "h", "e", "i", "g", "h", "t", "=">> @@
  "'" :>
    <<"'">> @@
  "ximagesrc" :>
    <<"x", "i", "m", "a", "g", "e", "s", "r", "c">> @@
  "videoconvert" :>
    <<"v", "i", "d", "e", "o", "c", "o", "n", "v", "e", "r", "t">> @@
  "videoscale ! video/x-raw,width=" :>
    <<"v", "i", "d", "e", "o", "s", "c", "a", "l", "e", " ", "!", " ", "v",
      "i", "d", "e", "o", "/", "x", "-", "r", "a", "w", ",", "w", "i", "d",
      "t", "h", "=">> @@
  ",framerate=" :>
    <<",", "f", "r", "a", "m", "e", "r", "a", "t", "e", "=">> @@
  "/1" :>
    <<"/", "1">> @@
  "whipclientsink name=whip min-bitrate=" :>
    <<"w", "h", "i", "p", "c", "l", "i", "e", "n", "t", "s", "i", "n", "k",
      " ", "n", "a", "m", "e", "=", "w", "h", "i", "p", " ", "m", "i", "n",
      "-", "b", "i", "t", "r", "a", "t", "e", "=">> @@
  " max-bitrate=" :>
    <<" ", "m", "a", "x", "-", "b", "i", "t", "r", "a", "t", "e", "=">> @@
  " start-bitrate=" :>
    <<" ", "s", "t", "a", "r", "t", "-", "b", "i", "t", "r", "a", "t", "e",
      "=">> @@
  " congestion-control=gcc signaller::whip-endpoint=\"" :>
    <<" ", "c", "o", "n", "g", "e", "s", "t", "i", "o", "n", "-", "c", "o",
      "n", "t", "r", "o", "l", "=", "g", "c", "c", " ", "s", "i", "g", "n",
      "a", "l", "l", "e", "r", ":", ":", "w", "h", "i", "p", "-", "e", "n",
      "d", "p", "o", "i", "n", "t", "=", "\"">> @@
  "\"" :>
    <<"\"">> @@
  " signaller::auth-token=\"" :>
    <<" ", "s", "i", "g", "n", "a", "l", "l", "e", "r", ":", ":", "a", "u",
      "t", "h", "-", "t", "o", "k", "e", "n", "=", "\"">> @@
  " turn-servers=<\"" :>
    <<" ", "t", "u", "r", "n", "-", "s", "e", "r", "v", "e", "r", "s", "=",
      "<", "\"">> @@
  "\">" :>
    <<"\"", ">">> @@
  "-hide_banner" :>
    <<"-", "h", "i", "d", "e", "_", "b", "a", "n", "n", "e", "r">> @@
  "-loglevel" :>
    <<"-", "l", "o", "g", "l", "e", "v", "e", "l">> @@
  "info" :>
    <<"i", "n", "f", "o">> @@
  "-fflags" :>
    <<"-", "f", "f", "l", "a", "g", "s">> @@
  "+genpts+nobuffer+flush_packets" :>
    <<"+", "g", "e", "n", "p", "t", "s", "+", "n", "o", "b", "u", "f", "f",
      "e", "r", "+", "f", "l", "u", "s", "h", "_", "p", "a", "c", "k", "e",
      "t", "s">> @@
  "-flags" :>
    <<"-", "f", "l", "a", "g", "s">> @@
  "low_delay" :>
    <<"l", "o", "w", "_", "d", "e", "l", "a", "y">> @@
  "-max_delay" :>
    <<"-", "m", "a", "x", "_", "d", "e", "l", "a", "y">> @@
  "0" :>
    <<"0">> @@
  "-y" :>
    <<"-", "y">> @@
  "-nostdin" :>
    <<"-", "n", "o", "s", "t", "d", "i", "n">> @@
  "-rtbufsize" :>
    <<"-", "r", "t", "b", "u", "f", "s", "i", "z", "e">> @@
  "64M" :>
    <<"6", "4", "M">> @@
  "-thread_queue_size" :>
    <<"-", "t", "h", "r", "e", "a", "d", "_", "q", "u", "e", "u", "e", "_",
      "s", "i", "z", "e">> @@
  "512" :>
    <<"5", "1", "2">> @@
  "-probesize" :>
    <<"-", "p", "r", "o", "b", "e", "s", "i", "z", "e">> @@
  "32" :>
    <<"3", "2">> @@
  "-analyzeduration" :>
    <<"-", "a", "n", "a", "l", "y", "z", "e", "d", "u", "r", "a", "t", "i",
      "o", "n">> @@
  "-f" :>
    <<"-", "f">> @@
  "gdigrab" :>
    <<"g", "d", "i", "g", "r", "a", "b">> @@
  "-draw_mouse" :>
    <<"-", "d", "r", "a", "w", "_", "m", "o", "u", "s", "e">> @@
  "1" :>
    <<"1">> @@
  "-framerate" :>
    <<"-", "f", "r", "a", "m", "e", "r", "a", "t", "e">> @@
  "scale=" :>
    <<"s", "c", "a", "l", "e", "=">> @@
  ":" :>
    <<":">> @@
  "title=" :>
    <<"t", "i", "t", "l", "e", "=">> @@
  "-i" :>
    <<"-", "i">> @@
  "nvenc" :>
    <<"n", "v", "e", "n", "c">> @@
  "-vf" :>
    <<"-", "v", "f">> @@
  ":flags=fast_bilinear,format=yuv420p" :>
    <<":", "f", "l", "a", "g", "s", "=", "f", "a", "s", "t", "_", "b", "i",
      "l", "i", "n", "e", "a", "r", ",", "f", "o", "r", "m", "a", "t", "=",
      "y", "u", "v", "4", "2", "0", "p">> @@
  ":flags=fast_bilinear" :>
    <<":", "f", "l", "a", "g", "s", "=", "f", "a", "s", "t", "_", "b", "i",
      "l", "i", "n", "e", "a", "r">> @@
  "-video_size" :>
    <<"-", "v", "i", "d", "e", "o", "_", "s", "i", "z", "e">> @@
  "x" :>
    <<"x">> @@
  "-offset_x" :>
    <<"-", "o", "f", "f", "s", "e", "t", "_", "x">> @@
  "-offset_y" :>
    <<"-", "o", "f", "f", "s", "e", "t", "_", "y">> @@
  "desktop" :>
    <<"d", "e", "s", "k", "t", "o", "p">> @@
  ":flags=fast_bilinear,format=nv12" :>
    <<":", "f", "l", "a", "g", "s", "=", "f", "a", "s", "t", "_", "b", "i",
      "l", "i", "n", "e", "a", "r", ",", "f", "o", "r", "m", "a", "t", "=",
      "n", "v", "1", "2">> @@
  "2560x1440" :>
    <<"2", "5", "6", "0", "x", "1", "4", "4", "0">> @@
  "x11grab" :>
    <<"x", "1", "1", "g", "r", "a", "b">> @@
  ":0.0" :>
    <<":", "0", ".", "0">> @@
  "k" :>
    <<"k">> @@
  "-c:v" :>
    <<"-", "c", ":", "v">> @@
  "h264_nvenc" :>
    <<"h", "2", "6", "4", "_", "n", "v", "e", "n", "c">> @@
  "-preset" :>
    <<"-", "p", "r", "e", "s", "e", "t">> @@
  "p1" :>
    <<"p", "1">> @@
  "-b:v" :>
    <<"-", "b", ":", "v">> @@
  "-bf" :>
    <<"-", "b", "f">> @@
  "-g" :>
    <<"-", "g">> @@
  "qsv" :>
    <<"q", "s", "v">> @@
  "h264_qsv" :>
    <<"h", "2", "6", "4", "_", "q", "s", "v">> @@
  "veryfast" :>
    <<"v", "e", "r", "y", "f", "a", "s", "t">> @@
  "-profile:v" :>
    <<"-", "p", "r", "o", "f", "i", "l", "e", ":", "v">> @@
  "baseline" :>
    <<"b", "a", "s", "e", "l", "i", "n", "e">> @@
  "amf" :>
    <<"a", "m", "f">> @@
  "h264_amf" :>
    <<"h", "2", "6", "4", "_", "a", "m", "f">> @@
  "-usage" :>
    <<"-", "u", "s", "a", "g", "e">> @@
  "ultralowlatency" :>
    <<"u", "l", "t", "r", "a", "l", "o", "w", "l", "a", "t", "e", "n", "c",
      "y">> @@
  "mf" :>
    <<"m", "f">> @@
  "h264_mf" :>
    <<"h", "2", "6", "4", "_", "m", "f">> @@
  "-rate_control" :>
    <<"-", "r", "a", "t", "e", "_", "c", "o", "n", "t", "r", "o", "l">> @@
  "4" :>
    <<"4">> @@
  "-scenario" :>
    <<"-", "s", "c", "e", "n", "a", "r", "i", "o">> @@
  "-hw_encoding" :>
    <<"-", "h", "w", "_", "e", "n", "c", "o", "d", "i", "n", "g">> @@
  "libx264" :>
    <<"l", "i", "b", "x", "2", "6", "4">> @@
  "ultrafast" :>
    <<"u", "l", "t", "r", "a", "f", "a", "s", "t">> @@
  "-tune" :>
    <<"-", "t", "u", "n", "e">> @@
  "zerolatency" :>
    <<"z", "e", "r", "o", "l", "a", "t", "e", "n", "c", "y">> @@
  "-bufsize" :>
    <<"-", "b", "u", "f", "s", "i", "z", "e">> @@
  "-threads" :>
    <<"-", "t", "h", "r", "e", "a", "d", "s">> @@
  "-pix_fmt" :>
    <<"-", "p", "i", "x", "_", "f", "m", "t">> @@
  "yuv420p" :>
    <<"y", "u", "v", "4", "2", "0", "p">> @@
  "-c:a" :>
    <<"-", "c", ":", "a">> @@
  "libopus" :>
    <<"l", "i", "b", "o", "p", "u", "s">> @@
  "-ar" :>
    <<"-", "a", "r">> @@
  "48000" :>
    <<"4", "8", "0", "0", "0">> @@
  "-ac" :>
    <<"-", "a", "c">> @@
  "2" :>
    <<"2">> @@
  "-b:a" :>
    <<"-", "b", ":", "a">> @@
  "128k" :>
    <<"1", "2", "8", "k">> @@
  "-an" :>
    <<"-", "a", "n">> @@
  "-flush_packets" :>
    <<"-", "f", "l", "u", "s", "h", "_", "p", "a", "c", "k", "e", "t", "s">> @@
  "-ts_buffer_size" :>
    <<"-", "t", "s", "_", "b", "u", "f", "f", "e", "r", "_", "s", "i", "z",
      "e">> @@
  "1048576" :>
    <<"1", "0", "4", "8", "5", "7", "6">> @@
  "-whip_flags" :>
    <<"-", "w", "h", "i", "p", "_", "f", "l", "a", "g", "s">> @@
  "dtls_active" :>
    <<"d", "t", "l", "s", "_", "a", "c", "t", "i", "v", "e">> @@
  "whip" :>
    <<"w", "h", "i", "p">> @@
  "-authorization" :>
    <<"-", "a", "u", "t", "h", "o", "r", "i", "z", "a", "t", "i", "o", "n">>

\* [T]::join: the texts of parts with sep between them
RECURSIVE join(_, _)
join(parts, sep) ==
  IF parts = <<>> THEN <<>>
  ELSE IF Len(parts) = 1 THEN parts[1]
  ELSE parts[1] \o sep \o join(Tail(parts), sep)

\* streaming.rs:679: c.bitrate * 1000 overflows the u32 it is computed in
bitrate_overflows(c) == mul_overflows(c.bitrate, 1000)

\* streaming.rs:679: (c.bitrate * 1000) as u64, the product wrapped to 32 bits
\* when it overflows and overflow checks are off
bitrate_bps(c) == as_u64(wrapping_mul(c.bitrate, 1000, 0))

\* streaming.rs:685
min_bitrate(c) == max(div(bitrate_bps(c), 4), as_u64(u32(500000)))

\* streaming.rs:686
start_bitrate(c) == div(wrapping_mul(bitrate_bps(c), 80, 0), 100)

\* streaming.rs:687
max_bitrate(c) == div(wrapping_mul(bitrate_bps(c), 150, 0), 100)

\* streaming.rs:624-671: the segments before the sink
pipeline_parts(c, os) ==
  IF os = "windows"
    THEN << chars["d3d11screencapturesrc monitor-index=0 show-cursor=true"],
            chars["'video/x-raw(memory:D3D11Memory),framerate="]
              \o to_string(c.fps) \o chars["/1'"],
            chars["d3d11convert"],
            chars["'video/x-raw(memory:D3D11Memory),format=NV12,width="]
              \o to_string(c.width) \o chars[",height="] \o to_string(c.height)
              \o chars["'"] >>
    ELSE << chars["ximagesrc"],
            chars["videoconvert"],
            chars["videoscale ! video/x-raw,width="]
              \o to_string(c.width) \o chars[",height="] \o to_string(c.height)
              \o chars[",framerate="] \o to_string(c.fps) \o chars["/1"] >>

\* streaming.rs:689-706: the sink segment
whip_args(c) ==
  chars["whipclientsink name=whip min-bitrate="] \o to_string(min_bitrate(c))
    \o chars[" max-bitrate="] \o to_string(max_bitrate(c))
    \o chars[" start-bitrate="] \o to_string(start_bitrate(c))
    \o chars[" congestion-control=gcc signaller::whip-endpoint=\""]
    \o c.whip_url \o chars["\""]
    \o (IF is_some(c.bearer_token)
          THEN chars[" signaller::auth-token=\""] \o unwrap(c.bearer_token) \o chars["\""]
          ELSE <<>>)
    \o (IF is_some(c.turn_server)
          THEN chars[" turn-servers=<\""] \o unwrap(c.turn_server) \o chars["\">"]
          ELSE <<>>)

\* streaming.rs:708-720: the two arguments
build_gstreamer_args(c, os) ==
  << chars["-e"], join(Append(pipeline_parts(c, os), whip_args(c)), chars[" ! "]) >>

\* the bitrates (kbps) the builders are applied to: 0, 100, 625, 6000,
\* 4294967 (the largest whose product with 1000 fits 32 bits), 4294968 and
\* 4294967295 (u32::MAX)
Bitrates ==
  { u32(0), u32(100), u32(625), u32(6000), u32(4294967), u32(4294968),
    <<65535, 65535>> }

\* the StreamConfig values build_gstreamer_args is applied to
GstConfigs ==
  [ source_id : { <<"d", "e", "s", "k", "t", "o", "p">> },
    whip_url : { <<"h", "t", "t", "p", "s", ":", "/", "/", "a">>,
                 (* a" signaller::auth-token="x *)
                 <<"a", "\"", " ", "s", "i", "g", "n", "a", "l", "l", "e",
                     "r", ":", ":", "a", "u", "t", "h", "-", "t", "o", "k",
                     "e", "n", "=", "\"", "x">> },
    width : { u32(1920) },
    height : { u32(1080) },
    fps : { u32(60) },
    bitrate : Bitrates,
    encoder : { <<"x", "2", "6", "4">> },
    preset : { <<>> },
    audio_enabled : { FALSE },
    bearer_token : { None, Some(<<"T">>) },
    backend : { "GStreamer" },
    turn_server : { None,
                    (* turn://u:p@h:1 *)
                    Some(<<"t", "u", "r", "n", ":", "/", "/", "u", ":", "p",
                           "@", "h", ":", "1">>),
                    (* turn://u:p!@h:1 *)
                    Some(<<"t", "u", "r", "n", ":", "/", "/", "u", ":", "p",
                           "!", "@", "h", ":", "1">>) } ]

\* what a builder is applied to: the config, the target platform of the build
\* (cfg(target_os)) and whether the build checks arithmetic overflow (a debug
\* build does, a release build does not)
BuildInputs(configs) ==
  [config : configs, os : {"windows", "other"}, overflow_checks : BOOLEAN]

\* Result values of the builders; a panic unwinds out of the builder
BuildOk(args) == [ok |-> TRUE, panicked |-> FALSE, args |-> args]
BuildPanic == [ok |-> FALSE, panicked |-> TRUE, args |-> <<>>]

\* build_gstreamer_args has not been applied yet to some config
InitGst ==
  /\ Default
  /\ call_pc = "idle"
  /\ call_in \in BuildInputs(GstConfigs)
  /\ call_local = None
  /\ call_out = None

\* streaming.rs:621-721
BuildGstreamerArgs ==
  /\ call_out = None
  /\ ~(call_in.overflow_checks /\ bitrate_overflows(call_in.config))
  /\ call_out' = BuildOk(build_gstreamer_args(call_in.config, call_in.os))
  /\ UNCHANGED <<call_pc, call_in, call_local, supervisor>>

\* streaming.rs:679: "attempt to multiply with overflow"
BuildGstreamerArgsPanics ==
  /\ call_out = None
  /\ call_in.overflow_checks /\ bitrate_overflows(call_in.config)
  /\ call_out' = BuildPanic
  /\ UNCHANGED <<call_pc, call_in, call_local, supervisor>>

\* build_gstreamer_args applied once to every input
NextGst ==
  \/ BuildGstreamerArgs
  \/ BuildGstreamerArgsPanics

SpecGst == InitGst /\ [][NextGst]_vars

----------------------------------------------------------------------------
\* build_ffmpeg_args (streaming.rs:724-921). The result is a sequence of
\* arguments, each a sequence of characters.

\* streaming.rs:728-737
global_options ==
  << chars["-hide_banner"],
     chars["-loglevel"], chars["info"],
     chars["-fflags"], chars["+genpts+nobuffer+flush_packets"],
     chars["-flags"], chars["low_delay"],
     chars["-max_delay"], chars["0"],
     chars["-y"],
     chars["-nostdin"] >>

\* the gdigrab options the three Windows branches start with
\* (streaming.rs:744-750, 770-776, 791-797)
gdigrab_options(c) ==
  << chars["-rtbufsize"], chars["64M"],
     chars["-thread_queue_size"], chars["512"],
     chars["-probesize"], chars["32"],
     chars["-analyzeduration"], chars["0"],
     chars["-f"], chars["gdigrab"],
     chars["-draw_mouse"], chars["1"],
     chars["-framerate"], to_string(c.fps) >>

\* format!("scale={}:{}<flags>", config.width, config.height)
scale_filter(c, flags) ==
  chars["scale="] \o to_string(c.width) \o chars[":"] \o to_string(c.height) \o flags

\* an input selection that ignores source_id and encoder
input_args_desktop_only(c, os) ==
  IF os = "windows" THEN
    gdigrab_options(c)
      \o << chars["-video_size"], chars["2560x1440"],
            chars["-offset_x"], chars["0"],
            chars["-offset_y"], chars["0"],
            chars["-i"], chars["desktop"] >>
      \o << chars["-vf"], scale_filter(c, chars[":flags=fast_bilinear"]) >>
  ELSE
    << chars["-f"], chars["x11grab"],
       chars["-framerate"], to_string(c.fps),
       chars["-i"], chars[":0.0"] >>
      \o << chars["-vf"], scale_filter(c, chars[":flags=fast_bilinear"]) >>

\* input source, streaming.rs:739-823
input_args(c, os) ==
  IF os = "windows" THEN
    IF starts_with(c.source_id, chars["title="]) THEN
      gdigrab_options(c)
        \o << chars["-i"], c.source_id >>
        \o (IF c.encoder = chars["nvenc"]
              THEN << chars["-vf"], scale_filter(c, chars[":flags=fast_bilinear,format=yuv420p"]) >>
              ELSE << chars["-vf"], scale_filter(c, chars[":flags=fast_bilinear"]) >>)
    ELSE IF c.encoder = chars["nvenc"] THEN
      gdigrab_options(c)
        \o << chars["-video_size"], to_string(c.width) \o chars["x"] \o to_string(c.height),
              chars["-offset_x"], chars["0"],
              chars["-offset_y"], chars["0"],
              chars["-i"], chars["desktop"] >>
        \o << chars["-vf"], scale_filter(c, chars[":flags=fast_bilinear,format=nv12"]) >>
    ELSE
      gdigrab_options(c)
        \o << chars["-video_size"], chars["2560x1440"],
              chars["-offset_x"], chars["0"],
              chars["-offset_y"], chars["0"],
              chars["-i"], chars["desktop"] >>
        \o << chars["-vf"], scale_filter(c, chars[":flags=fast_bilinear"]) >>
  ELSE
    << chars["-f"], chars["x11grab"],
       chars["-framerate"], to_string(c.fps),
       chars["-i"], chars[":0.0"] >>
      \o << chars["-vf"], scale_filter(c, chars[":flags=fast_bilinear"]) >>

\* config.fps * 2 does not fit a u32
gop_overflows(c) == mul_overflows(c.fps, 2)

\* (config.fps * 2).to_string()
gop(c) == to_string(wrapping_mul(c.fps, 2, 0))

\* format!("{}k", n)
kilo(n) == to_string(n) \o chars["k"]

\* match config.encoder.as_str(), streaming.rs:826-886
encoder_args(c) ==
  IF c.encoder = chars["nvenc"] THEN
    << chars["-c:v"], chars["h264_nvenc"],
       chars["-preset"], chars["p1"],
       chars["-b:v"], kilo(c.bitrate),
       chars["-bf"], chars["0"],
       chars["-g"], gop(c) >>
  ELSE IF c.encoder = chars["qsv"] THEN
    << chars["-c:v"], chars["h264_qsv"],
       chars["-preset"], chars["veryfast"],
       chars["-profile:v"], chars["baseline"],
       chars["-bf"], chars["0"],
       chars["-b:v"], kilo(c.bitrate),
       chars["-g"], gop(c) >>
  ELSE IF c.encoder = chars["amf"] THEN
    << chars["-c:v"], chars["h264_amf"],
       chars["-usage"], chars["ultralowlatency"],
       chars["-profile:v"], chars["baseline"],
       chars["-bf"], chars["0"],
       chars["-b:v"], kilo(c.bitrate),
       chars["-g"], gop(c) >>
  ELSE IF c.encoder = chars["mf"] THEN
    << chars["-c:v"], chars["h264_mf"],
       chars["-rate_control"], chars["4"],
       chars["-scenario"], chars["4"],
       chars["-hw_encoding"], chars["1"],
       chars["-profile:v"], chars["baseline"],
       chars["-bf"], chars["0"],
       chars["-b:v"], kilo(c.bitrate),
       chars["-g"], gop(c) >>
  ELSE
    << chars["-c:v"], chars["libx264"],
       chars["-preset"], chars["ultrafast"],
       chars["-tune"], chars["zerolatency"],
       chars["-profile:v"], chars["baseline"],
       chars["-bf"], chars["0"],
       chars["-b:v"], kilo(c.bitrate),
       chars["-bufsize"], kilo(div(c.bitrate, 4)),
       chars["-g"], gop(c),
       chars["-threads"], chars["1"] >>

\* a builder that sets the pixel format for every encoder
pix_fmt_args_always(c) ==
  << chars["-pix_fmt"], chars["yuv420p"] >>

\* streaming.rs:889-891
pix_fmt_args(c) ==
  IF c.encoder # chars["nvenc"] THEN << chars["-pix_fmt"], chars["yuv420p"] >> ELSE <<>>

\* streaming.rs:894-903
audio_args(c) ==
  IF c.audio_enabled
    THEN << chars["-c:a"], chars["libopus"],
            chars["-ar"], chars["48000"],
            chars["-ac"], chars["2"],
            chars["-b:a"], chars["128k"] >>
    ELSE << chars["-an"] >>

\* streaming.rs:906-911
whip_output ==
  << chars["-flush_packets"], chars["1"],
     chars["-ts_buffer_size"], chars["1048576"],
     chars["-whip_flags"], chars["dtls_active"],
     chars["-f"], chars["whip"] >>

\* a builder that writes the option whether or not a token is set
bearer_token_args_always(c) ==
  << chars["-authorization"],
     IF is_some(c.bearer_token) THEN unwrap(c.bearer_token) ELSE <<>> >>

\* streaming.rs:914-916
bearer_token_args(c) ==
  IF is_some(c.bearer_token)
    THEN << chars["-authorization"], unwrap(c.bearer_token) >>
    ELSE <<>>

\* streaming.rs:724-921, the value inside Ok
build_ffmpeg_args(c, os) ==
  global_options
    \o input_args(c, os)
    \o encoder_args(c)
    \o pix_fmt_args(c)
    \o audio_args(c)
    \o whip_output
    \o bearer_token_args(c)
    \o << c.whip_url >>

\* the StreamConfig values build_ffmpeg_args is applied to; the fps values are
\* 30 and 2^31, the encoders the five names and one that is none of them
FfmpegConfigs ==
  [ source_id : { <<"d", "e", "s", "k", "t", "o", "p">>,
                  <<"t", "i", "t", "l", "e", "=", "M", "y", " ", "G", "a", "m", "e">> },
    whip_url : { <<"h", "t", "t", "p", "s", ":", "/", "/", "a">>,
                 <<"-", "a", "u", "t", "h", "o", "r", "i", "z", "a", "t", "i", "o", "n">> },
    width : { u32(1280) },
    height : { u32(720) },
    fps : { u32(30), <<0, 32768>> },
    bitrate : { u32(4000) },
    encoder : { <<"n", "v", "e", "n", "c">>, <<"q", "s", "v">>, <<"a", "m", "f">>, <<"m", "f">>, <<"x", "2", "6", "4">>,
                <<"v", "p", "9">> },
    preset : { <<>> },
    audio_enabled : BOOLEAN,
    bearer_token : { None, Some(<<"T">>) },
    backend : { "FFmpeg" },
    turn_server : { None } ]

\* build_ffmpeg_args has not been applied yet to some config
InitFfmpeg ==
  /\ Default
  /\ call_pc = "idle"
  /\ call_in \in BuildInputs(FfmpegConfigs)
  /\ call_local = None
  /\ call_out = None

\* streaming.rs:724-921
BuildFfmpegArgs ==
  /\ call_out = None
  /\ ~(call_in.overflow_checks /\ gop_overflows(call_in.config))
  /\ call_out' = BuildOk(build_ffmpeg_args(call_in.config, call_in.os))
  /\ UNCHANGED <<call_pc, call_in, call_local, supervisor>>

\* config.fps * 2 (streaming.rs:835, 845, 855, 869, 882): "attempt to multiply
\* with overflow"
BuildFfmpegArgsPanics ==
  /\ call_out = None
  /\ call_in.overflow_checks /\ gop_overflows(call_in.config)
  /\ call_out' = BuildPanic
  /\ UNCHANGED <<call_pc, call_in, call_local, supervisor>>

\* build_ffmpeg_args applied once to every input
NextFfmpeg ==
  \/ BuildFfmpegArgs
  \/ BuildFfmpegArgsPanics

SpecFfmpeg == InitFfmpeg /\ [][NextFfmpeg]_vars

----------------------------------------------------------------------------
\* get_gstreamer_env (streaming.rs:281-312). Paths and values are sequences
\* of characters; "\\xFF" stands for a unit that is not valid Unicode.

\* std::path::MAIN_SEPARATOR of the target platform
main_separator(os) == IF os = "windows" THEN "\\" ELSE "/"

\* a character Path::join takes for a separator at the end of the path
is_separator(ch, os) == ch = "/" \/ (os = "windows" /\ ch = "\\")

\* Path::join with a relative component
path_join(path, component, os) ==
  IF path = <<>> THEN component
  ELSE IF is_separator(path[Len(path)], os) THEN path \o component
  ELSE path \o <<main_separator(os)>> \o component

\* to_string_lossy().to_string(): invalid units become U+FFFD
to_string_lossy(path) ==
  [i \in 1..Len(path) |-> IF path[i] = "\\xFF" THEN "\\uFFFD" ELSE path[i]]

\* std::env::var(name).unwrap_or_default(): empty when the variable is unset
\* or is not valid Unicode
var_or_default(value) ==
  IF is_some(value) /\ \A i \in 1..Len(unwrap(value)) : unwrap(value)[i] # "\\xFF"
    THEN unwrap(value) ELSE <<>>

\* streaming.rs:286-287
gst_bin(resource_dir, os) ==
  path_join(path_join(resource_dir, <<"g", "s", "t", "r", "e", "a", "m", "e", "r">>, os), <<"b", "i", "n">>, os)

\* streaming.rs:286-288
gst_plugins(resource_dir, os) ==
  path_join(path_join(path_join(resource_dir, <<"g", "s", "t", "r", "e", "a", "m", "e", "r">>, os), <<"l", "i", "b">>, os),
            <<"g", "s", "t", "r", "e", "a", "m", "e", "r", "-", "1", ".", "0">>, os)

\* streaming.rs:299-300: format!("{};{}", gst_bin.to_string_lossy(), current_path)
new_path(resource_dir, path_var, os) ==
  to_string_lossy(gst_bin(resource_dir, os)) \o <<";">> \o var_or_default(path_var)

\* the map returned by get_gstreamer_env, as the set of its (key, value) pairs
get_gstreamer_env(resource_dir, path_var, os) ==
  IF is_some(resource_dir)
    THEN { <<"GST_PLUGIN_PATH", to_string_lossy(gst_plugins(unwrap(resource_dir), os))>>,
           <<"GST_PLUGIN_SYSTEM_PATH", <<>> >>,
           <<"PATH", new_path(unwrap(resource_dir), path_var, os)>>,
           <<"GST_REGISTRY_UPDATE", <<"n", "o">>>> }
    ELSE {}

\* the installations get_gstreamer_env runs in: the target platform, the
\* resource directory the path resolver gives, and the PATH variable of the
\* process (None when unset)
Installations ==
  [ os : {"windows", "other"},
    resource_dir : { None,
                     Some(<<"C", ":", "\\", "a", "p", "p">>),
                     Some(<<"C", ":", "\\", "a", "p", "p", "\\">>),
                     Some(<<"/", "o", "p", "t", "/", "a", "p", "p">>),
                     Some(<<"/", "o", "p", "t", "/", "a", "p", "p", "/">>),
                     Some(<<"/", "o", "\\xFF">>) },
    path_var : { None,
                 Some(<<>>),
                 Some(<<"C", ":", "\\", "W", ";", "C", ":", "\\", "X">>),
                 Some(<<"/", "u", "s", "r", "/", "b", "i", "n", ":", "/", "b", "i", "n">>),
                 Some(<<"/", "b", "\\xFF">>) } ]

\* get_gstreamer_env has not been called yet in some installation
InitEnv ==
  /\ Default
  /\ call_pc = "idle"
  /\ call_in \in Installations
  /\ call_local = None
  /\ call_out = None

\* streaming.rs:285-305: the resource directory resolves
GetGstreamerEnv ==
  /\ call_out = None
  /\ is_some(call_in.resource_dir)
  /\ call_out' = [env |-> get_gstreamer_env(call_in.resource_dir, call_in.path_var,
                                            call_in.os)]
  /\ UNCHANGED <<call_pc, call_in, call_local, supervisor>>

\* streaming.rs:306-311: it does not
GetGstreamerEnvUnresolved ==
  /\ call_out = None
  /\ ~is_some(call_in.resource_dir)
  /\ call_out' = [env |-> get_gstreamer_env(call_in.resource_dir, call_in.path_var,
                                            call_in.os)]
  /\ UNCHANGED <<call_pc, call_in, call_local, supervisor>>

\* get_gstreamer_env called once in every installation
NextEnv ==
  \/ GetGstreamerEnv
  \/ GetGstreamerEnvUnresolved

SpecEnv == InitEnv /\ [][NextEnv]_vars

----------------------------------------------------------------------------
\* Properties.

\* child, config, start_time and backend are all set
AllSet ==
  /\ is_some(stream_child)
  /\ is_some(current_config)
  /\ is_some(start_time)
  /\ is_some(current_backend)

\* child, config, start_time and backend are all empty
AllEmpty ==
  /\ ~is_some(stream_child)
  /\ ~is_some(current_config)
  /\ ~is_some(start_time)
  /\ ~is_some(current_backend)

\* the spawned processes that have neither exited nor been killed
Alive == {c \in Children : proc[c] = "alive"}

\* C1: start_stream calls that run in parallel spawn at most one sidecar: at
\* no time do two spawned, un-terminated children exist.
C1_AtMostOneLiveChild == Cardinality(Alive) <= 1

\* C2: sequential double start. After a start_stream(c1) that overlapped no
\* other command has returned Ok and no stop_stream has been called since, a
\* start_stream(c2) running alone returns Err("Already streaming") at its
\* check, spawns no process and changes no slot, and a get_stream_status
\* reports the stream active with whip_url and source_id of c1.
C2_SequentialDoubleStart ==
  [][\A t \in Threads :
       /\ (/\ okChild # 0 /\ okAlone /\ alone
           /\ pc[t] = "start_check" /\ pc'[t] # "start_check")
          => /\ pc'[t] = "idle"
             /\ ret' = Err("start", "Already streaming")
             /\ UNCHANGED <<slots, procs>>
       /\ (/\ okChild # 0 /\ okAlone
           /\ pc[t] = "status_lock_backend" /\ pc'[t] = "idle")
          => /\ ret'.status.active
             /\ ret'.status.whip_url = Some(unwrap(okConfig).whip_url)
             /\ ret'.status.source_id = Some(unwrap(okConfig).source_id)
    ]_vars

\* C2 witness: a second start_stream has just been rejected while the slots
\* still hold the stream of the first one.
C2_Witness ==
  /\ ret = Err("start", "Already streaming")
  /\ okChild # 0 /\ okAlone /\ alone
  /\ stream_child = Some(okChild)
  /\ current_config = okConfig

\* C3: whenever no command is in progress, child, config, start_time and
\* backend are all set or all empty.
C3_SlotsAllOrNone == Quiet => (AllSet \/ AllEmpty)

\* C4: every StreamStatus returned by get_stream_status is consistent: active
\* with source_id, whip_url and backend present, or inactive with all three
\* absent and duration_seconds 0.
C4_StatusConsistent ==
  ret.op = "status" =>
    LET s == ret.status IN
      \/ /\ s.active
         /\ is_some(s.source_id) /\ is_some(s.whip_url) /\ is_some(s.backend)
      \/ /\ ~s.active
         /\ ~is_some(s.source_id) /\ ~is_some(s.whip_url) /\ ~is_some(s.backend)
         /\ s.duration_seconds = 0

\* C5: once the child of the current stream has exited by itself and its drain
\* task has processed the Terminated event, with no stop_stream called,
\* running is false and get_stream_status reports active=false.
C5_ExitedChildInactive ==
  (/\ ret.op = "status" /\ alone
   /\ okChild # 0 /\ stream_child = Some(okChild)
   /\ proc[okChild] = "exited" /\ drain[okChild] = "done")
  => /\ ~is_running
     /\ ~ret.status.active

\* C6: after a start_stream has returned Ok, a get_stream_status that overlaps
\* no other command reports active=true as long as no stop_stream has been
\* called since and the child of that start has not terminated.
C6_ActiveUntilStopOrExit ==
  (/\ ret.op = "status" /\ alone
   /\ okChild # 0 /\ proc[okChild] = "alive")
  => ret.status.active

\* C7: running is true from a successful start_stream until the first
\* stop_stream call or the termination of the child that start spawned.
C7_RunningWhileStreaming ==
  (okChild # 0 /\ okAlone /\ proc[okChild] = "alive") => is_running

\* C8: after a successful start_stream, last_error is empty and
\* get_stream_status reports no error until the child spawned by that start
\* has written a matching line to stderr.
C8_ErrorOnlyFromCurrentChild ==
  (okChild # 0 /\ okAlone /\ ~errEmitted[okChild])
  => /\ last_error = None
     /\ (ret.op = "status" => ret.status.error = None)

\* C9: when stop_stream returns and no other command is in progress, child,
\* config, start_time and backend are empty, running is false and
\* get_stream_status reports active=false.
C9_StoppedAfterStop ==
  (ret = Ok("stop") /\ Quiet)
  => /\ AllEmpty
     /\ ~is_running
     /\ \A e \in 0..MaxElapsed : ~StreamStatus(e).active

\* C10: no step of stop_stream modifies last_error.
C10_StopKeepsLastError ==
  [][\A t \in Threads :
       ((pc[t] \in StopPcs \/ pc'[t] \in StopPcs) /\ pc'[t] # pc[t])
       => last_error' = last_error
    ]_vars

\* C10 witness: a stop_stream has just returned and the error captured during
\* the stream is still there.
C10_Witness ==
  /\ ret = Ok("stop")
  /\ is_some(last_error)
  /\ AllEmpty

\* C11: stop_stream never fails and, called when no child is held, is a no-op:
\* every step of a stop_stream that overlaps no other command and that found
\* the child slot empty leaves all six slots and all processes unchanged
\* (no kill request), and the call returns Ok.
C11_StopWithoutChildIsNoOp ==
  [][\A t \in Threads :
       (/\ alone
        /\ pc[t] \in StopPcs /\ pc'[t] # pc[t]
        /\ IF pc[t] = "stop_take" THEN ~is_some(stream_child) ELSE ~is_some(child[t]))
       => /\ UNCHANGED <<slots, procs>>
          /\ pc'[t] # "stop_kill"
          /\ (pc'[t] = "idle" => ret' = Ok("stop"))
    ]_vars

\* C12: error capture by the drain loop. A drain step that receives a stderr
\* line containing "Error", "error" or "ERROR" stores that line in last_error;
\* a step that receives any other stderr line, or a stdout line, leaves
\* last_error unchanged. And last_error is empty when a start_stream returns
\* Ok and from then on, until stop_stream is called, changes only when the
\* drain loop receives a line of the child that start spawned: so status.error
\* is the most recent triggering line since the last successful start.
C12_ErrorCapture ==
  [][/\ \A c \in Children :
          Len(rx'[c]) < Len(rx[c]) =>
            LET ev == Head(rx[c]) IN
              IF /\ ev.kind = "Stderr"
                 /\ \/ contains(ev.line, <<"E", "r", "r", "o", "r">>)
                    \/ contains(ev.line, <<"e", "r", "r", "o", "r">>)
                    \/ contains(ev.line, <<"E", "R", "R", "O", "R">>)
                THEN last_error' = Some(ev.line)
                ELSE last_error' = last_error
     /\ (okChild' # okChild /\ okChild' # 0 /\ okAlone') => last_error' = None
     /\ (okChild # 0 /\ okAlone /\ okChild' = okChild /\ last_error' # last_error)
          => Len(rx'[okChild]) < Len(rx[okChild])
    ]_vars

\* C13: a start_stream that fails at creating or spawning the sidecar returns
\* an error other than "Already streaming" and none of its steps modifies a
\* slot or a process; when it overlapped no other command the child slot is
\* empty as it returns, so that a later start_stream passes the check.
C13_SpawnFailureChangesNothing ==
  [][\A t \in Threads :
       /\ (pc[t] \in {"start_check", "start_spawn"} /\ pc'[t] \in {"start_spawn", "idle"}
           /\ pc'[t] # pc[t])
          => UNCHANGED <<slots, procs>>
       /\ (pc[t] = "start_spawn" /\ pc'[t] = "idle")
          => /\ ret'.op = "start" /\ ~ret'.ok
             /\ ret'.err # "Already streaming"
             /\ alone => ~is_some(stream_child')
    ]_vars

\* C13 witness: a start_stream has just failed at the spawn while last_error
\* still holds the error captured during an earlier stream.
C13_Witness ==
  /\ ret.op = "start" /\ ~ret.ok /\ ret.err # "Already streaming"
  /\ is_some(last_error)
  /\ AllEmpty

\* C14: no capability probe returns an error: whatever step of check_ffmpeg
\* or check_gstreamer fails (creating the sidecar, the version run, the
\* encoders run, the muxers run, the plugin-help run), the probe returns a
\* result record.
C14_ProbesNeverErr == call_out # None => call_out.ok

\* C15: on Windows, list_capture_sources emits an entry for a top-level window
\* if and only if the window is visible, is not a tool window, has a non-empty
\* title that starts with none of the eight system titles, and is at least 200
\* wide and 150 high (and fewer than 20 windows were emitted before): the
\* entries after the desktop are those of the qualifying windows, in order,
\* e.g. id "title=My Game" for a visible 800x600 window titled "My Game".
\* Stated of the list EnumWindows leaves when it has visited every window.
C15_WindowListedIff ==
  (call_pc = "enum_windows" /\ call_local.next > Len(call_in.windows)) =>
    LET keep(w) == /\ w.visible
                   /\ ~w.tool
                   /\ w.title # <<>>
                   /\ \A i \in 1..8 : ~starts_with(w.title, skip_titles[i])
                   /\ w.width >= 200 /\ w.height >= 150
        kept == SelectSeq(call_in.windows, keep)
        emitted == SubSeq(kept, 1, IF Len(kept) > 20 THEN 20 ELSE Len(kept))
    IN  /\ Len(call_local.sources) = 1 + Len(emitted)
        /\ \A i \in 1..Len(emitted) :
             /\ call_local.sources[i + 1].id = <<"t", "i", "t", "l", "e", "=">> \o escape_quotes(emitted[i].title)
             /\ call_local.sources[i + 1].source_type = "window"

after(text, key) ==
  LET at == {i \in 1..(Len(text) - Len(key) + 1) : SubSeq(text, i, i + Len(key) - 1) = key}
  IN  SubSeq(text, Least(at) + Len(key), Len(text))

\* the decimal digits text starts with
leading_digits(text) ==
  LET stops == {i \in 1..(Len(text) + 1) :
                  i = Len(text) + 1 \/ text[i] \notin {"0", "1", "2", "3", "4", "5", "6", "7", "8", "9"}}
  IN  SubSeq(text, 1, Least(stops) - 1)

\* the u64 written by decimal digits
RECURSIVE parse_u64(_)
parse_u64(ds) ==
  IF ds = <<>> THEN <<0, 0, 0, 0>>
  ELSE wrapping_mul(parse_u64(SubSeq(ds, 1, Len(ds) - 1)), 10,
                    CHOOSE d \in 0..9 : to_string(u32(d)) = <<ds[Len(ds)]>>)

\* the value of property key in the pipeline string
sink_value(pipeline, key) == parse_u64(leading_digits(after(pipeline, key)))

\* the text after the last "!" of the pipeline string
last_segment(pipeline) ==
  LET marks == {i \in 1..Len(pipeline) : pipeline[i] = "!"}
      last == CHOOSE i \in marks : \A j \in marks : j <= i
  IN  SubSeq(pipeline, last + 1, Len(pipeline))

\* C17: for every config with bitrate > 0, the sink values written by
\* build_gstreamer_args satisfy min-bitrate >= 500000 and
\* min-bitrate <= start-bitrate <= max-bitrate.
C17_BitrateOrder ==
  (call_out # None /\ call_out.ok /\ ~is_zero(call_in.config.bitrate)) =>
    LET pipeline == call_out.args[2]
        min == sink_value(pipeline, <<"m", "i", "n", "-", "b", "i", "t", "r", "a", "t", "e", "=">>)
        start == sink_value(pipeline, <<"s", "t", "a", "r", "t", "-", "b", "i", "t", "r", "a", "t", "e", "=">>)
        most == sink_value(pipeline, <<"m", "a", "x", "-", "b", "i", "t", "r", "a", "t", "e", "=">>)
    IN  /\ le(as_u64(u32(500000)), min)
        /\ le(min, start)
        /\ le(start, most)

\* C18: for every u32 bitrate (kbps), build_gstreamer_args returns, and with
\* target_bps the exact product bitrate * 1000 it writes
\* start-bitrate = target_bps * 80 / 100, max-bitrate = target_bps * 150 / 100
\* and min-bitrate = max(target_bps / 4, 500000).
C18_ExactTargetBps ==
  call_out # None =>
    /\ call_out.ok
    /\ LET pipeline == call_out.args[2]
           target_bps == wrapping_mul(as_u64(call_in.config.bitrate), 1000, 0)
       IN  /\ sink_value(pipeline, <<"s", "t", "a", "r", "t", "-", "b", "i", "t", "r", "a", "t", "e", "=">>)
                = div(wrapping_mul(target_bps, 80, 0), 100)
           /\ sink_value(pipeline, <<"m", "a", "x", "-", "b", "i", "t", "r", "a", "t", "e", "=">>)
                = div(wrapping_mul(target_bps, 150, 0), 100)
           /\ sink_value(pipeline, <<"m", "i", "n", "-", "b", "i", "t", "r", "a", "t", "e", "=">>)
                = max(div(target_bps, 4), as_u64(u32(500000)))

\* key occurs in text
occurs(text, key) ==
  \E i \in 1..(Len(text) - Len(key) + 1) : SubSeq(text, i, i + Len(key) - 1) = key

\* C19: for every StreamConfig, build_gstreamer_args succeeds and returns
\* exactly two arguments, '-e' and the pipeline string; the last
\* '!'-separated segment of the pipeline is the whipclientsink segment, in
\* which the auth-token property is present iff bearer_token is set and the
\* turn-servers property is present iff turn_server is set, auth-token first.
C19_GstArgsShape ==
  call_out # None =>
    /\ call_out.ok
    /\ Len(call_out.args) = 2
    /\ call_out.args[1] = <<"-", "e">>
    /\ LET sink == last_segment(call_out.args[2])
           auth == <<" ", "s", "i", "g", "n", "a", "l", "l", "e", "r", ":",
                     ":", "a", "u", "t", "h", "-", "t", "o", "k", "e", "n",
                     "=", "\"">>
           turn == <<" ", "t", "u", "r", "n", "-", "s", "e", "r", "v", "e",
                     "r", "s", "=", "<", "\"">>
       IN  /\ starts_with(sink, <<" ", "w", "h", "i", "p", "c", "l", "i", "e",
                                 "n", "t", "s", "i", "n", "k", " ", "n", "a",
                                 "m", "e", "=", "w", "h", "i", "p", " ">>)
           /\ occurs(sink, auth) <=> is_some(call_in.config.bearer_token)
           /\ occurs(sink, turn) <=> is_some(call_in.config.turn_server)
           /\ (occurs(sink, auth) /\ occurs(sink, turn)) => occurs(after(sink, auth), turn)

\* the trailing k arguments
last_args(args, k) == SubSeq(args, Len(args) - k + 1, Len(args))

input_section(args) ==
  SubSeq(args, 1, Least({i \in 1..Len(args) : args[i] = <<"-", "c", ":", "v">>}) - 1)

\* option opt is among args
given(args, opt) == \E i \in 1..Len(args) : args[i] = opt

\* the argument that follows the first occurrence of option opt
value_of(args, opt) == args[Least({i \in 1..Len(args) : args[i] = opt}) + 1]

\* C21: on Windows build_ffmpeg_args selects the capture input by source_id
\* and encoder. For a source_id starting with 'title=' the '-i' value is the
\* source_id and the input section has no '-video_size', and the scale filter
\* ends with ',format=yuv420p' iff encoder is nvenc. For any other source_id
\* the '-i' value is 'desktop', with '-video_size WxH' and filter suffix
\* ',format=nv12' for nvenc, and '-video_size 2560x1440' with the plain scale
\* filter otherwise.
C21_WindowsInputSelection ==
  (call_out # None /\ call_out.ok /\ call_in.os = "windows") =>
    LET c == call_in.config
        input == input_section(call_out.args)
        scale == <<"s", "c", "a", "l", "e", "=">> \o to_string(c.width) \o <<":">> \o to_string(c.height)
                   \o <<":", "f", "l", "a", "g", "s", "=", "f", "a", "s", "t", "_", "b", "i", "l", "i", "n", "e", "a", "r">>
        nvenc == c.encoder = <<"n", "v", "e", "n", "c">>
    IN  IF starts_with(c.source_id, <<"t", "i", "t", "l", "e", "=">>)
          THEN /\ value_of(input, <<"-", "i">>) = c.source_id
               /\ ~given(input, <<"-", "v", "i", "d", "e", "o", "_", "s", "i", "z", "e">>)
               /\ value_of(input, <<"-", "v", "f">>)
                    = scale \o (IF nvenc THEN <<",", "f", "o", "r", "m", "a", "t", "=", "y", "u", "v", "4", "2", "0", "p">> ELSE <<>>)
          ELSE /\ value_of(input, <<"-", "i">>) = <<"d", "e", "s", "k", "t", "o", "p">>
               /\ IF nvenc
                    THEN /\ value_of(input, <<"-", "v", "i", "d", "e", "o", "_", "s", "i", "z", "e">>)
                              = to_string(c.width) \o <<"x">> \o to_string(c.height)
                         /\ value_of(input, <<"-", "v", "f">>) = scale \o <<",", "f", "o", "r", "m", "a", "t", "=", "n", "v", "1", "2">>
                    ELSE /\ value_of(input, <<"-", "v", "i", "d", "e", "o", "_", "s", "i", "z", "e">>) = <<"2", "5", "6", "0", "x", "1", "4", "4", "0">>
                         /\ value_of(input, <<"-", "v", "f">>) = scale

\* a window source has been built for nvenc on Windows
C21_Witness ==
  /\ call_out # None /\ call_out.ok
  /\ call_in.os = "windows"
  /\ starts_with(call_in.config.source_id, <<"t", "i", "t", "l", "e", "=">>)
  /\ call_in.config.encoder = <<"n", "v", "e", "n", "c">>
  /\ given(call_out.args, call_in.config.source_id)

\* the arguments the builder composes before the WHIP output section
before_output(args) ==
  SubSeq(args, 1, Least({i \in 1..Len(args) : args[i] = <<"-", "f", "l", "u", "s", "h", "_", "p", "a", "c", "k", "e", "t", "s">>}) - 1)

\* C22: build_ffmpeg_args emits exactly one '-c:v', whose codec is h264_nvenc
\* for nvenc, h264_qsv for qsv, h264_amf for amf, h264_mf for mf and libx264
\* for x264 and any other encoder string; '-pix_fmt yuv420p' follows the
\* encoder block (between it and the audio options) iff encoder is not nvenc.
C22_EncoderSelection ==
  (call_out # None /\ call_out.ok) =>
    LET c == call_in.config
        args == before_output(call_out.args)
        codecs == {i \in 1..Len(args) : args[i] = <<"-", "c", ":", "v">>}
        pix == {i \in 1..Len(args) : args[i] = <<"-", "p", "i", "x", "_", "f", "m", "t">>}
        codec ==
          IF c.encoder = <<"n", "v", "e", "n", "c">> THEN <<"h", "2", "6", "4", "_", "n", "v", "e", "n", "c">>
          ELSE IF c.encoder = <<"q", "s", "v">> THEN <<"h", "2", "6", "4", "_", "q", "s", "v">>
          ELSE IF c.encoder = <<"a", "m", "f">> THEN <<"h", "2", "6", "4", "_", "a", "m", "f">>
          ELSE IF c.encoder = <<"m", "f">> THEN <<"h", "2", "6", "4", "_", "m", "f">>
          ELSE <<"l", "i", "b", "x", "2", "6", "4">>
    IN  /\ Cardinality(codecs) = 1
        /\ value_of(args, <<"-", "c", ":", "v">>) = codec
        /\ IF c.encoder = <<"n", "v", "e", "n", "c">>
             THEN pix = {}
             ELSE /\ Cardinality(pix) = 1
                  /\ \A i \in pix :
                       /\ \A j \in codecs : j < i
                       /\ args[i + 1] = <<"y", "u", "v", "4", "2", "0", "p">>
                       /\ args[i + 2] \in {<<"-", "c", ":", "a">>, <<"-", "a", "n">>}

\* an encoder string that is none of the five names has been built
C22_Witness ==
  /\ call_out # None /\ call_out.ok
  /\ call_in.config.encoder = <<"v", "p", "9">>
  /\ given(call_out.args, <<"l", "i", "b", "x", "2", "6", "4">>)
  /\ given(call_out.args, <<"-", "p", "i", "x", "_", "f", "m", "t">>)

\* the order the claim names
LockOrder == <<"stream_child", "current_config", "start_time", "last_error",
               "is_running", "current_backend">>

\* the locks whose guard the thread holds
held(t) == {l \in LockNames : holder[l] = t}

\* the drain task of the child has an event to receive
pending(c) == drain[c] = "running" /\ (rx[c] # <<>> \/ proc[c] \in {"exited", "killed"})

\* C23: every operation acquires the slot locks only in an order consistent
\* with child, config, start_time, last_error, running, backend; start_stream
\* and stop_stream hold no guard between their blocks, in particular none
\* while the child is spawned; consequently no interleaving deadlocks: while a
\* command is in progress some command can take a step, and a drain task with
\* an event to handle can take its step or waits for a guard held by a command
\* that can.
C23_LockOrderNoDeadlock ==
  /\ [](/\ \A t \in Threads : pc[t] \notin StatusPcs => held(t) = {}
        /\ (\E t \in Threads : Busy(t)) => \E t \in Threads : ENABLED Command(t)
        /\ \A c \in Children :
             pending(c) =>
               \/ ENABLED (DrainStderr(c) \/ DrainStdout(c) \/ DrainOther(c)
                             \/ DrainTerminated(c))
               \/ \E t \in Threads : held(t) # {} /\ ENABLED Command(t))
  /\ [][\A t \in Threads : \A l \in LockNames :
          (holder'[l] = t /\ holder[l] # t) =>
             \A k \in held(t) :
               \E i, j \in 1..Len(LockOrder) :
                 i < j /\ LockOrder[i] = k /\ LockOrder[j] = l]_vars

\* get_stream_status holds four guards while a stop_stream waits for the child
\* slot and a drain task waits with an error line for last_error
C23_Witness ==
  \E t, u \in Threads : \E c \in Children :
    /\ pc[t] = "status_lock_backend"
    /\ held(t) = {"stream_child", "current_config", "start_time", "last_error"}
    /\ pc[u] = "stop_take"
    /\ drain[c] = "running"
    /\ rx[c] # <<>>
    /\ is_error_line(Head(rx[c]).line)
    /\ ~ENABLED DrainStderr(c)

\* C24: every sidecar that has been spawned and has neither exited nor been
\* sent a kill request is the process whose handle is in the child slot (or is
\* on its way there from the spawn, or from there to the kill, inside the
\* command that moves it); a handle leaves the slot only by stop_stream taking
\* it, never by being overwritten.
C24_RunningChildReachable ==
  /\ [](\A c \in Children :
          proc[c] = "alive" =>
            \/ stream_child = Some(c)
            \/ \E t \in Threads :
                 pc[t] \in {"start_set_child", "stop_kill"} /\ child[t] = Some(c))
  /\ [][(is_some(stream_child) /\ stream_child' # stream_child) =>
          \E t \in Threads :
            /\ pc[t] = "stop_take" /\ pc'[t] = "stop_kill"
            /\ child'[t] = stream_child
            /\ stream_child' = None]_vars

\* C25: once a child has terminated (its Terminated event is the last one on
\* its channel), under fair scheduling its drain task eventually terminates;
\* the step in which it terminates sets running to false, and a terminated
\* drain task receives no event and takes no further step.
C25_DrainTerminates ==
  /\ \A c \in Children : (proc[c] \in {"exited", "killed"}) ~> (drain[c] = "done")
  /\ [][\A c \in Children :
          /\ (drain[c] = "running" /\ drain'[c] = "done") =>
               (rx[c] = <<>> /\ ~is_running')
          /\ drain[c] = "done" => (drain'[c] = "done" /\ rx'[c] = rx[c])]_vars

\* a child that wrote an error line has exited and its drain task has ended
C25_Witness ==
  \E c \in Children :
    /\ drain[c] = "done"
    /\ proc[c] = "exited"
    /\ errEmitted[c]
    /\ last_error # None
    /\ ~is_running

\* a window C15 says is listed: visible, not a tool window, with a title that
\* is delivered and starts with none of the named system titles, and a
\* rectangle of at least 200 x 150
qualifies(w) ==
  /\ w.visible /\ ~w.tool
  /\ w.title # <<>> /\ w.text_ok
  /\ \A i \in 1..8 : ~starts_with(w.title, skip_titles[i])
  /\ w.rect_ok /\ w.width >= 200 /\ w.height >= 150

values_of(env, key) == {kv[2] : kv \in {p \in env : p[1] = key}}

\* C27: when the resource directory R resolves, the environment sets PATH to
\* R/gstreamer/bin, then the path-list separator of the operating system (';'
\* on Windows, ':' elsewhere), then the inherited PATH, and sets
\* GST_PLUGIN_SYSTEM_PATH to the empty string; when R does not resolve the map
\* is empty.
C27_GstreamerEnv ==
  call_out # None =>
    IF is_some(call_in.resource_dir)
      THEN LET bin == to_string_lossy(gst_bin(unwrap(call_in.resource_dir), call_in.os))
               inherited == IF is_some(call_in.path_var) THEN unwrap(call_in.path_var)
                            ELSE <<>>
           IN  /\ values_of(call_out.env, "PATH")
                    = {bin \o <<IF call_in.os = "windows" THEN ";" ELSE ":">> \o inherited}
               /\ values_of(call_out.env, "GST_PLUGIN_SYSTEM_PATH") = {<<>>}
      ELSE call_out.env = {}

=============================================================================
